---- MODULE Spec2Model ----
(***************************************************************************)
(* reminders-mcp (src/src/index.ts): the bridge between MCP tool calls and *)
(* the Reminders store, reached through generated AppleScript run by       *)
(* osascript.  The model keeps the store (lists, reminders), the tool      *)
(* calls in flight (one record per call slot) and, for frame conditions,   *)
(* a snapshot of the store taken when a call enters handleToolCall.        *)
(*                                                                         *)
(* Texts are sequences of one-character strings; the special characters    *)
(* are the tokens DQ, BS, LF, CR, TAB.  JavaScript values are tagged       *)
(* records (Undef, Str, Num, Bool, Null, Arr).                             *)
(***************************************************************************)
EXTENDS Integers, Sequences, FiniteSets, TLC

VARIABLES lists, reminders, nextId, now, calls, snap

vars == <<lists, reminders, nextId, now, calls, snap>>

(***************************************************************************)
(* Bounds of the model.                                                    *)
(***************************************************************************)
\* reminder ids the store hands out: 1..MaxIds
MaxIds == 3
\* longest descriptor / id array of a bulk call
MaxBulk == 3

(***************************************************************************)
(* Characters and JavaScript values.                                       *)
(***************************************************************************)
DQ == "<dq>"
BS == "<bs>"
LF == "<lf>"
CR == "<cr>"
TAB == "<tab>"

Undef == [t |-> "undefined"]
Null == [t |-> "null"]
Str(s) == [t |-> "string", s |-> s]
Num(n) == [t |-> "number", n |-> n]
Bool(b) == [t |-> "boolean", b |-> b]
Arr(items) == [t |-> "array", items |-> items]

\* JavaScript's ToBoolean, as used by `!args.x` and `x || y`
Truthy(v) ==
  CASE v.t = "undefined" -> FALSE
    [] v.t = "null" -> FALSE
    [] v.t = "string" -> v.s # <<>>
    [] v.t = "number" -> v.n # 0
    [] v.t = "boolean" -> v.b
    [] OTHER -> TRUE

\* a message is a sequence of words
NoMsg == <<>>

(***************************************************************************)
(* Text conversions.                                                       *)
(***************************************************************************)
RECURSIVE ReplaceChar(_, _, _)
\* every occurrence of the character c in s replaced by the text rep
ReplaceChar(s, c, rep) ==
  IF s = <<>> THEN <<>>
  ELSE (IF Head(s) = c THEN rep ELSE <<Head(s)>>) \o ReplaceChar(Tail(s), c, rep)

\* str.replace(/"/g, '\\"'): the only escaping the renderer applies
EscapeQuotes(s) == ReplaceChar(s, DQ, <<BS, DQ>>)

RECURSIVE LexLiteral(_, _, _)
\* The host reads the literal "<content>" of the command text from its
\* opening quote: \" \\ \n \r \t are its escapes, any other backslash pair
\* is a syntax error, an unescaped quote inside content ends the literal
\* early and a trailing backslash swallows the closing quote.
LexLiteral(content, i, acc) ==
  IF i > Len(content) THEN [ok |-> TRUE, s |-> acc, why |-> "closed"]
  ELSE IF content[i] = DQ THEN [ok |-> FALSE, s |-> acc, why |-> "early"]
  ELSE IF content[i] = BS THEN
    IF i = Len(content) THEN [ok |-> FALSE, s |-> acc, why |-> "swallowed"]
    ELSE LET d == content[i + 1] IN
      CASE d = DQ -> LexLiteral(content, i + 2, Append(acc, DQ))
        [] d = BS -> LexLiteral(content, i + 2, Append(acc, BS))
        [] d = "n" -> LexLiteral(content, i + 2, Append(acc, LF))
        [] d = "r" -> LexLiteral(content, i + 2, Append(acc, CR))
        [] d = "t" -> LexLiteral(content, i + 2, Append(acc, TAB))
        [] OTHER -> [ok |-> FALSE, s |-> acc, why |-> "escape"]
  ELSE LexLiteral(content, i + 1, Append(acc, content[i]))

HostLiteral(content) == LexLiteral(content, 1, <<>>)

\* the three replaceText calls the read scripts apply to name and body:
\* backslash, then double quote, then `return` (CR) to the two characters \n
HostEscape(s) ==
  ReplaceChar(ReplaceChar(ReplaceChar(s, BS, <<BS, BS>>), DQ, <<BS, DQ>>),
              CR, <<BS, "n">>)

RECURSIVE JsonLex(_, _, _)
\* JSON.parse on the content of one string of the reply: the JSON escapes
\* are decoded; a raw quote, a raw control character, an unknown escape or
\* a trailing backslash make the whole reply unparseable.
JsonLex(content, i, acc) ==
  IF i > Len(content) THEN [ok |-> TRUE, s |-> acc]
  ELSE IF content[i] \in {DQ, LF, CR, TAB} THEN [ok |-> FALSE, s |-> acc]
  ELSE IF content[i] = BS THEN
    IF i = Len(content) THEN [ok |-> FALSE, s |-> acc]
    ELSE LET d == content[i + 1] IN
      CASE d = DQ -> JsonLex(content, i + 2, Append(acc, DQ))
        [] d = BS -> JsonLex(content, i + 2, Append(acc, BS))
        [] d = "n" -> JsonLex(content, i + 2, Append(acc, LF))
        [] d = "r" -> JsonLex(content, i + 2, Append(acc, CR))
        [] d = "t" -> JsonLex(content, i + 2, Append(acc, TAB))
        [] OTHER -> [ok |-> FALSE, s |-> acc]
  ELSE JsonLex(content, i + 1, Append(acc, content[i]))

JsonString(content) == JsonLex(content, 1, <<>>)

UpperChars == <<"A", "B", "C", "D", "E", "F", "G", "H", "I", "J", "K", "L", "M",
                "N", "O", "P", "Q", "R", "S", "T", "U", "V", "W", "X", "Y", "Z">>
LowerChars == <<"a", "b", "c", "d", "e", "f", "g", "h", "i", "j", "k", "l", "m",
                "n", "o", "p", "q", "r", "s", "t", "u", "v", "w", "x", "y", "z">>

LowerChar(c) ==
  IF \E k \in 1..Len(UpperChars) : UpperChars[k] = c
  THEN LowerChars[CHOOSE k \in 1..Len(UpperChars) : UpperChars[k] = c]
  ELSE c

\* a letter pair outside A-Z: E with acute accent, capital and small
UpperEacute == "<E-acute>"
LowerEacute == "<e-acute>"

\* String.prototype.toLowerCase on the characters of the model: it follows
\* Unicode, so it also lowers the accented capital
JsLowerChar(c) == IF c = UpperEacute THEN LowerEacute ELSE LowerChar(c)

JsToLowerCase(s) == [k \in 1..Len(s) |-> JsLowerChar(s[k])]

(***************************************************************************)
(* Priority helpers.                                                       *)
(***************************************************************************)
getPriorityName(priority) ==
  IF priority = 0 THEN "none"
  ELSE IF priority >= 1 /\ priority <= 4 THEN "high"
  ELSE IF priority = 5 THEN "medium"
  ELSE "low"

\* a getPriorityValue that compares the name as spelled
getPriorityValueCased(name) ==
  CASE name = <<"h", "i", "g", "h">> -> 1
    [] name = <<"m", "e", "d", "i", "u", "m">> -> 5
    [] name = <<"l", "o", "w">> -> 9
    [] OTHER -> 0

getPriorityValue(name) ==
  LET lower == JsToLowerCase(name) IN
  CASE lower = <<"h", "i", "g", "h">> -> 1
    [] lower = <<"m", "e", "d", "i", "u", "m">> -> 5
    [] lower = <<"l", "o", "w">> -> 9
    [] lower = <<"n", "o", "n", "e">> -> 0
    [] OTHER -> 0

\* `typeof priority === "string" ? getPriorityValue(priority) : priority`,
\* kept only when 0 <= priorityNum <= 9: [set |-> FALSE] is "no priority line"
priorityLine(priority) ==
  IF priority.t = "undefined" THEN [set |-> FALSE, n |-> 0]
  ELSE LET priorityNum == IF priority.t = "string"
                          THEN getPriorityValue(priority.s) ELSE priority.n
       IN IF priorityNum >= 0 /\ priorityNum <= 9
          THEN [set |-> TRUE, n |-> priorityNum]
          ELSE [set |-> FALSE, n |-> 0]

(***************************************************************************)
(* The native store as the scripts see it.  A store value S is             *)
(* [lists, reminders, nextId, now]: list names in enumeration order (the   *)
(* first is the default list), reminders in enumeration order, the next id *)
(* the store will hand out and the host clock in seconds.                  *)
(***************************************************************************)
DefaultListName == <<"R">>
WorkListName == <<"W">>

\* the opaque id the store gives its n-th reminder / list
IdOf(n) == <<"x", ToString(n)>>
ListIdOf(name) == <<"l">> \o name

NoDue == [has |-> FALSE, t |-> 0]
DueAt(t) == [has |-> TRUE, t |-> t]

Store == [lists |-> lists, reminders |-> reminders, nextId |-> nextId, now |-> now]

\* position of the reminder with this id, 0 when there is none
RemIndex(S, id) ==
  IF \E k \in 1..Len(S.reminders) : S.reminders[k].id = id
  THEN CHOOSE k \in 1..Len(S.reminders) : S.reminders[k].id = id
  ELSE 0

RECURSIVE SelectSeqBy(_, _)
\* the subsequence of seq at the positions in keep, order kept
SelectSeqBy(seq, keep) ==
  IF seq = <<>> THEN <<>>
  ELSE LET n == Len(seq)
           rest == SelectSeqBy(SubSeq(seq, 1, n - 1), keep)
       IN IF n \in keep THEN Append(rest, seq[n]) ELSE rest

HasList(S, name) == \E k \in 1..Len(S.lists) : S.lists[k] = name

\* messages of the host and of the process layer
SyntaxError == <<"syntax", "error">>
CantGetReminder == <<"Can't", "get", "reminder", "id">>
CantGetList == <<"Can't", "get", "list">>
ListExists == <<"list", "already", "exists">>
TimedOut == <<"Command", "failed:", "timed", "out">>
NotAuthorized == <<"Not", "authorized", "to", "send", "Apple", "events">>
AccessDenied == <<"Reminders", "access", "denied.", "Grant", "permission", "in",
                  "System", "Settings", ">", "Privacy", "&", "Security", ">",
                  "Reminders">>

HostFail(S, msg) == [ok |-> FALSE, out |-> <<>>, err |-> msg, S |-> S]
HostDone(S, out) == [ok |-> TRUE, out |-> out, err |-> NoMsg, S |-> S]

\* where a script's `list "<lit>"` / `default list` points: the literal read
\* by the host, then looked up by name
ListTarget(S, target) ==
  IF ~target.named THEN [ok |-> TRUE, name |-> S.lists[1], err |-> NoMsg]
  ELSE LET lit == HostLiteral(target.lit) IN
       IF ~lit.ok THEN [ok |-> FALSE, name |-> <<>>, err |-> SyntaxError]
       ELSE IF ~HasList(S, lit.s) THEN [ok |-> FALSE, name |-> <<>>, err |-> CantGetList]
       ELSE [ok |-> TRUE, name |-> lit.s, err |-> NoMsg]

\* make new reminder ... with properties {name, body}; set due date,
\* priority, flagged; return id of newReminder
HostCreate(script, S) ==
  LET nm == HostLiteral(script.name)
      bd == HostLiteral(script.body)
      tg == ListTarget(S, script.list)
  IN IF ~nm.ok \/ ~bd.ok THEN HostFail(S, SyntaxError)
     ELSE IF ~tg.ok THEN HostFail(S, tg.err)
     ELSE LET r == [id |-> IdOf(S.nextId), name |-> nm.s, body |-> bd.s,
                    completed |-> FALSE,
                    due |-> IF script.due.set THEN DueAt(script.due.t) ELSE NoDue,
                    priority |-> IF script.priority.set THEN script.priority.n ELSE 0,
                    flagged |-> IF script.flagged.set THEN script.flagged.b ELSE FALSE,
                    list |-> tg.name, created |-> S.now, modified |-> S.now]
          IN HostDone([S EXCEPT !.reminders = Append(@, r), !.nextId = @ + 1], r.id)

\* a host whose script flips the completed flag instead of setting it
HostSetCompletedToggles(script, S, value) ==
  LET id == HostLiteral(script.id) IN
  IF ~id.ok THEN HostFail(S, SyntaxError)
  ELSE LET k == RemIndex(S, id.s) IN
       IF k = 0 THEN HostFail(S, CantGetReminder)
       ELSE HostDone([S EXCEPT !.reminders[k].completed = ~@,
                                !.reminders[k].modified = S.now], <<"done">>)

\* set theReminder to reminder id "<lit>"; set completed of theReminder
HostSetCompleted(script, S, value) ==
  LET id == HostLiteral(script.id) IN
  IF ~id.ok THEN HostFail(S, SyntaxError)
  ELSE LET k == RemIndex(S, id.s) IN
       IF k = 0 THEN HostFail(S, CantGetReminder)
       ELSE HostDone([S EXCEPT !.reminders[k].completed = value,
                                !.reminders[k].modified = S.now], <<"done">>)

\* a host on which deleting an id it does not hold is no error
HostDeleteQuiet(script, S) ==
  LET id == HostLiteral(script.id) IN
  IF ~id.ok THEN HostFail(S, SyntaxError)
  ELSE HostDone([S EXCEPT !.reminders =
                   SelectSeqBy(@, {j \in 1..Len(@) : @[j].id # id.s})], <<"done">>)

\* delete reminder id "<lit>"
HostDelete(script, S) ==
  LET id == HostLiteral(script.id) IN
  IF ~id.ok THEN HostFail(S, SyntaxError)
  ELSE LET k == RemIndex(S, id.s) IN
       IF k = 0 THEN HostFail(S, CantGetReminder)
       ELSE HostDone([S EXCEPT !.reminders =
                        SelectSeqBy(@, (1..Len(@)) \ {k})], <<"done">>)

\* set theReminder to reminder id "<lit>"; the update lines in the order
\* name, body, due date, priority, flagged
HostUpdate(script, S) ==
  LET id == HostLiteral(script.id)
      nm == HostLiteral(script.name.lit)
      bd == HostLiteral(script.body.lit)
  IN IF ~id.ok \/ (script.name.set /\ ~nm.ok) \/ (script.body.set /\ ~bd.ok)
     THEN HostFail(S, SyntaxError)
     ELSE LET k == RemIndex(S, id.s) IN
          IF k = 0 THEN HostFail(S, CantGetReminder)
          ELSE LET r == S.reminders[k]
                   r2 == [r EXCEPT
                            !.name = IF script.name.set THEN nm.s ELSE @,
                            !.body = IF script.body.set THEN bd.s ELSE @,
                            !.due = CASE script.due.mode = "clear" -> NoDue
                                      [] script.due.mode = "set" -> DueAt(script.due.t)
                                      [] OTHER -> @,
                            !.priority = IF script.priority.set THEN script.priority.n ELSE @,
                            !.flagged = IF script.flagged.set THEN script.flagged.b ELSE @,
                            !.modified = S.now]
               IN HostDone([S EXCEPT !.reminders[k] = r2], <<"done">>)

\* make new list with properties {name:"<lit>"}; return id of newList
HostCreateList(script, S) ==
  LET nm == HostLiteral(script.name) IN
  IF ~nm.ok THEN HostFail(S, SyntaxError)
  ELSE IF HasList(S, nm.s) THEN HostFail(S, ListExists)
  ELSE HostDone([S EXCEPT !.lists = Append(@, nm.s)], ListIdOf(nm.s))

\* delete list "<lit>": the list goes with the reminders it holds
HostDeleteList(script, S) ==
  LET nm == HostLiteral(script.name) IN
  IF ~nm.ok THEN HostFail(S, SyntaxError)
  ELSE IF ~HasList(S, nm.s) THEN HostFail(S, CantGetList)
  ELSE HostDone([S EXCEPT
         !.lists = SelectSeqBy(@, {j \in 1..Len(@) : @[j] # nm.s}),
         !.reminders = SelectSeqBy(@, {j \in 1..Len(@) : @[j].list # nm.s})],
         <<"done">>)

(***************************************************************************)
(* The renderers: what each operation does before it spawns osascript.     *)
(* A renderer gives [throws, script]: throws is the TypeError of calling   *)
(* .replace / .toLowerCase on a value that is no string, raised outside    *)
(* the operation's try block.                                              *)
(***************************************************************************)
IsStr(v) == v.t = "string"

NoScript == [op |-> "none"]
Throws == [throws |-> TRUE, script |-> NoScript]
Renders(script) == [throws |-> FALSE, script |-> script]
TypeErrorMsg == <<"TypeError">>

\* an ISO-8601 text new Date() parses, naming the instant ms (milliseconds)
IsoText(ms) == <<"T", ToString(ms)>>
\* the instants the date inputs of the model name
JsInstants == {1000500, 1086400000}

\* parseDate: new Date(dateStr), null when it is no date
parseDate(dateStr) ==
  IF IsStr(dateStr) /\ \E ms \in JsInstants : IsoText(ms) = dateStr.s
  THEN [ok |-> TRUE, ms |-> CHOOSE ms \in JsInstants : IsoText(ms) = dateStr.s]
  ELSE [ok |-> FALSE, ms |-> 0]

\* formatDateForAppleScript renders to the second; the host's
\* date "<text>" reads that text back as its own instant, in seconds
formatDateForAppleScript(ms) == ms \div 1000

\* `list "<escaped>"` when list is truthy, else `default list`
listTarget(list) ==
  IF Truthy(list) THEN [named |-> TRUE, lit |-> EscapeQuotes(list.s)]
  ELSE [named |-> FALSE, lit |-> <<>>]

dueDateLine(dueDate) ==
  IF Truthy(dueDate) /\ parseDate(dueDate).ok
  THEN [set |-> TRUE, t |-> formatDateForAppleScript(parseDate(dueDate).ms)]
  ELSE [set |-> FALSE, t |-> 0]

flaggedLine(flagged) ==
  IF flagged.t = "boolean" THEN [set |-> TRUE, b |-> flagged.b]
  ELSE [set |-> FALSE, b |-> FALSE]

\* createReminder up to its try block: o is {name, body, list, dueDate,
\* priority, flagged}
createReminder(o) ==
  IF ~IsStr(o.name) THEN Throws
  ELSE IF o.body.t \notin {"undefined", "null", "string"} THEN Throws
  ELSE IF Truthy(o.list) /\ ~IsStr(o.list) THEN Throws
  ELSE Renders([op |-> "create", name |-> EscapeQuotes(o.name.s),
                body |-> IF IsStr(o.body) THEN EscapeQuotes(o.body.s) ELSE <<>>,
                list |-> listTarget(o.list), due |-> dueDateLine(o.dueDate),
                priority |-> priorityLine(o.priority),
                flagged |-> flaggedLine(o.flagged)])

\* completeReminder / uncompleteReminder / deleteReminder up to the try
\* block: op is "complete", "uncomplete" or "delete"
idScript(op, reminderId) ==
  IF ~IsStr(reminderId) THEN Throws
  ELSE Renders([op |-> op, id |-> EscapeQuotes(reminderId.s)])

\* the update lines of updateReminder; [set |-> FALSE] is a line not pushed
updateLines(u) ==
  [name |-> IF u.name.t = "undefined" THEN [set |-> FALSE, lit |-> <<>>]
            ELSE [set |-> TRUE, lit |-> EscapeQuotes(u.name.s)],
   body |-> IF u.body.t = "undefined" THEN [set |-> FALSE, lit |-> <<>>]
            ELSE [set |-> TRUE, lit |-> EscapeQuotes(u.body.s)],
   due |-> IF u.dueDate.t = "null" THEN [mode |-> "clear", t |-> 0]
           ELSE IF dueDateLine(u.dueDate).set
                THEN [mode |-> "set", t |-> dueDateLine(u.dueDate).t]
                ELSE [mode |-> "keep", t |-> 0],
   priority |-> priorityLine(u.priority),
   flagged |-> flaggedLine(u.flagged)]

updateLinesLength(l) ==
  (IF l.name.set THEN 1 ELSE 0) + (IF l.body.set THEN 1 ELSE 0)
  + (IF l.due.mode # "keep" THEN 1 ELSE 0) + (IF l.priority.set THEN 1 ELSE 0)
  + (IF l.flagged.set THEN 1 ELSE 0)

NoUpdatesProvided == <<"No", "updates", "provided">>

\* updateReminder up to its try block: [throws, empty, script]; empty is the
\* early return {success:false, error:"No updates provided"}
updateReminder(reminderId, u) ==
  IF (u.name.t \notin {"undefined", "string"}) \/ (u.body.t \notin {"undefined", "string"})
  THEN [throws |-> TRUE, empty |-> FALSE, script |-> NoScript]
  ELSE LET l == updateLines(u) IN
       IF updateLinesLength(l) = 0
       THEN [throws |-> FALSE, empty |-> TRUE, script |-> NoScript]
       ELSE IF ~IsStr(reminderId)
       THEN [throws |-> TRUE, empty |-> FALSE, script |-> NoScript]
       ELSE [throws |-> FALSE, empty |-> FALSE,
             script |-> [op |-> "update", id |-> EscapeQuotes(reminderId.s),
                         name |-> l.name, body |-> l.body, due |-> l.due,
                         priority |-> l.priority, flagged |-> l.flagged]]

\* createList / deleteList / openList up to the try block
listScript(op, name) ==
  IF ~IsStr(name) THEN Throws
  ELSE Renders([op |-> op, name |-> EscapeQuotes(name.s)])

(***************************************************************************)
(* The read scripts.  The host's reply is modelled as the sequence of the  *)
(* objects it concatenates ("wire" records): id and list name are written  *)
(* raw, name and body after HostEscape, dates as «class isot» text.        *)
(***************************************************************************)
DefaultLimit == 100
SearchLimit == 50
DefaultDays == 7
DaySeconds == 24 * 60 * 60

EmptyDate == [k |-> "empty", t |-> 0]
IsotDate(t) == [k |-> "isot", t |-> t]
IsoInstant(ms) == [k |-> "iso", t |-> ms]

\* reminders of the named lists, lists in the given order, store order
\* within each list
RECURSIVE Enumerate(_, _)
Enumerate(S, names) ==
  IF names = <<>> THEN <<>>
  ELSE SelectSeqBy(S.reminders,
         {j \in 1..Len(S.reminders) : S.reminders[j].list = Head(names)})
       \o Enumerate(S, Tail(names))

\* a cap that is not applied
FirstNUncapped(seq, n) == seq

\* a cap that keeps the last n
LastN(seq, n) ==
  IF n <= 0 THEN <<>> ELSE IF Len(seq) > n THEN SubSeq(seq, Len(seq) - n + 1, Len(seq)) ELSE seq

\* if itemCount > limit then set itemCount to limit / if matchCount < limit
FirstN(seq, n) == IF n <= 0 THEN <<>> ELSE IF Len(seq) > n THEN SubSeq(seq, 1, n) ELSE seq

Wire(r, withFlagged) ==
  [id |-> r.id, name |-> HostEscape(r.name), body |-> HostEscape(r.body),
   completed |-> r.completed,
   dueDate |-> IF r.due.has THEN IsotDate(r.due.t) ELSE EmptyDate,
   priority |-> r.priority, hasFlagged |-> withFlagged,
   flagged |-> withFlagged /\ r.flagged, list |-> r.list,
   creationDate |-> IsotDate(r.created), modificationDate |-> IsotDate(r.modified)]

WireAll(seq, withFlagged) == [j \in 1..Len(seq) |-> Wire(seq[j], withFlagged)]

\* getLists' script
HostGetLists(script, S) ==
  HostDone(S, [j \in 1..Len(S.lists) |->
    [id |-> ListIdOf(S.lists[j]), name |-> S.lists[j],
     count |-> Len(Enumerate(S, <<S.lists[j]>>))]])

\* a fetch whose script takes what it returns out of the list
HostGetRemindersConsumes(script, S) ==
  LET tg == ListTarget(S, script.list) IN
  IF ~tg.ok THEN HostFail(S, tg.err)
  ELSE HostDone([S EXCEPT !.reminders =
                   SelectSeqBy(@, {j \in 1..Len(@) : @[j].list # tg.name})],
                WireAll(FirstN(Enumerate(S, <<tg.name>>), script.limit), TRUE))

\* getReminders' script: one list, the completion filter, the first
\* `limit` of what is left
HostGetReminders(script, S) ==
  LET tg == ListTarget(S, script.list) IN
  IF ~tg.ok THEN HostFail(S, tg.err)
  ELSE LET inList == Enumerate(S, <<tg.name>>)
           allReminders == SelectSeqBy(inList, {j \in 1..Len(inList) :
                             script.completed = "any"
                             \/ (script.completed = "true") = inList[j].completed})
       IN HostDone(S, WireAll(FirstN(allReminders, script.limit), TRUE))

\* two characters that a text comparison of the host takes for equal: it
\* ignores case unless told `considering case`, for every letter
AsSameChar(x, y) ==
  \/ x = y
  \/ LowerChar(x) = LowerChar(y)
  \/ {x, y} = {UpperEacute, LowerEacute}

\* a `contains` under `considering case`
RECURSIVE AsContainsCasedFrom(_, _, _)
AsContainsCasedFrom(hay, needle, i) ==
  IF i + Len(needle) - 1 > Len(hay) THEN FALSE
  ELSE IF SubSeq(hay, i, i + Len(needle) - 1) = needle THEN TRUE
  ELSE AsContainsCasedFrom(hay, needle, i + 1)

\* AppleScript's `contains`
RECURSIVE AsContainsFrom(_, _, _)
AsContainsFrom(hay, needle, i) ==
  IF i + Len(needle) - 1 > Len(hay) THEN FALSE
  ELSE IF \A j \in 1..Len(needle) : AsSameChar(hay[i + j - 1], needle[j]) THEN TRUE
  ELSE AsContainsFrom(hay, needle, i + 1)

AsContains(hay, needle) == needle # <<>> /\ AsContainsFrom(hay, needle, 1)

\* the toLowerCase handler of the search script: A-Z to a-z
AsToLowerCase(theText) == [k \in 1..Len(theText) |-> LowerChar(theText[k])]

\* searchReminders' script
HostSearch(script, S) ==
  LET q == HostLiteral(script.query)
      tg == ListTarget(S, script.list)
  IN IF ~q.ok THEN HostFail(S, SyntaxError)
     ELSE IF script.list.named /\ ~tg.ok THEN HostFail(S, tg.err)
     ELSE LET scanned == Enumerate(S, IF script.list.named THEN <<tg.name>> ELSE S.lists)
              hits == SelectSeqBy(scanned, {j \in 1..Len(scanned) :
                        AsContains(AsToLowerCase(scanned[j].name), q.s)
                        \/ AsContains(AsToLowerCase(scanned[j].body), q.s)})
          IN HostDone(S, WireAll(FirstN(hits, script.limit), FALSE))

\* set todayStart to current date; set time of todayStart to 0
TodayStart(rightNow) == rightNow - (rightNow % DaySeconds)

\* a due-today window that takes the next midnight in
DueTodayClosed(d, rightNow) ==
  d >= TodayStart(rightNow) /\ d <= TodayStart(rightNow) + DaySeconds

\* rDueDate >= todayStart and rDueDate < todayEnd
DueToday(d, rightNow) ==
  d >= TodayStart(rightNow) /\ d < TodayStart(rightNow) + DaySeconds

\* an overdue test that takes the present second in
OverdueOrNow(d, rightNow) == d <= rightNow

\* rDueDate < rightNow
Overdue(d, rightNow) == d < rightNow

\* an upcoming window that leaves its last second out
UpcomingOpen(d, rightNow, days) ==
  d >= rightNow /\ d < rightNow + (days * DaySeconds)

\* rDueDate >= rightNow and rDueDate <= futureDate
Upcoming(d, rightNow, days) ==
  d >= rightNow /\ d <= rightNow + (days * DaySeconds)

\* the scripts of getDueToday, getOverdue, getUpcoming: incomplete
\* reminders of every list with a due date in the window
HostDueWindow(script, S) ==
  LET scanned == Enumerate(S, S.lists)
      InWindow(d) ==
        CASE script.op = "dueToday" -> DueToday(d, S.now)
          [] script.op = "overdue" -> Overdue(d, S.now)
          [] OTHER -> Upcoming(d, S.now, script.days)
  IN HostDone(S, WireAll(SelectSeqBy(scanned, {j \in 1..Len(scanned) :
                   /\ ~scanned[j].completed
                   /\ scanned[j].due.has
                   /\ InWindow(scanned[j].due.t)}), FALSE))

\* getFlagged's script
HostFlagged(script, S) ==
  LET scanned == Enumerate(S, S.lists) IN
  HostDone(S, WireAll(SelectSeqBy(scanned, {j \in 1..Len(scanned) :
             scanned[j].flagged /\ ~scanned[j].completed}), TRUE))

\* activate / show list / count of lists: scripts that leave the store alone
HostOpenList(script, S) ==
  LET nm == HostLiteral(script.name) IN
  IF ~nm.ok THEN HostFail(S, SyntaxError)
  ELSE IF ~HasList(S, nm.s) THEN HostFail(S, CantGetList)
  ELSE HostDone(S, <<>>)

\* what running the command text does to the store, and its reply
Host(script, S) ==
  CASE script.op = "create" -> HostCreate(script, S)
    [] script.op = "complete" -> HostSetCompleted(script, S, TRUE)
    [] script.op = "uncomplete" -> HostSetCompleted(script, S, FALSE)
    [] script.op = "delete" -> HostDelete(script, S)
    [] script.op = "update" -> HostUpdate(script, S)
    [] script.op = "createList" -> HostCreateList(script, S)
    [] script.op = "deleteList" -> HostDeleteList(script, S)
    [] script.op = "openList" -> HostOpenList(script, S)
    [] script.op = "getLists" -> HostGetLists(script, S)
    [] script.op = "getReminders" -> HostGetReminders(script, S)
    [] script.op = "search" -> HostSearch(script, S)
    [] script.op \in {"dueToday", "overdue", "upcoming"} -> HostDueWindow(script, S)
    [] script.op = "flagged" -> HostFlagged(script, S)
    [] OTHER -> HostDone(S, <<>>)

(***************************************************************************)
(* The process layer.                                                      *)
(***************************************************************************)
\* how the subprocess itself can fail, whatever the script
Faults == {"none", "timeout", "denied"}

RECURSIVE IncludesFrom(_, _, _)
IncludesFrom(msg, marker, i) ==
  IF i + Len(marker) - 1 > Len(msg) THEN FALSE
  ELSE IF SubSeq(msg, i, i + Len(marker) - 1) = marker THEN TRUE
  ELSE IncludesFrom(msg, marker, i + 1)

\* error.message?.includes("Not authorized")
IncludesNotAuthorized(msg) == IncludesFrom(msg, <<"Not", "authorized">>, 1)

\* the scripts whose reply is a plain text (an id, "done" or nothing); the
\* others reply with the JSON text they build
TextReply(script) == script.op \notin {"getLists", "getReminders", "search", "dueToday",
                                        "overdue", "upcoming", "flagged"}

Whitespace == {LF, CR, TAB, " "}

RECURSIVE TrimStart(_)
TrimStart(s) == IF s # <<>> /\ Head(s) \in Whitespace THEN TrimStart(Tail(s)) ELSE s

RECURSIVE TrimEnd(_)
TrimEnd(s) ==
  IF s # <<>> /\ s[Len(s)] \in Whitespace THEN TrimEnd(SubSeq(s, 1, Len(s) - 1)) ELSE s

\* String.prototype.trim
JsTrim(s) == TrimEnd(TrimStart(s))

\* osascript ends the text it prints with a line feed
Printed(script, r) ==
  IF r.ok /\ TextReply(script) THEN [r EXCEPT !.out = @ \o <<LF>>] ELSE r

\* execAsync(`osascript -e '...'`): resolves with what osascript printed; a
\* process that fails rejects with its diagnostic text
runAppleScriptRaw(script, S, fault) ==
  CASE fault = "timeout" -> HostFail(S, TimedOut)
    [] fault = "denied" -> HostFail(S, NotAuthorized)
    [] OTHER -> Printed(script, Host(script, S))

\* what execAsync gave, kept beside what runAppleScript makes of it
WithRaw(r, raw) ==
  [ok |-> r.ok, out |-> r.out, err |-> r.err, S |-> r.S,
   raw |-> [out |-> raw.out, err |-> raw.err]]

\* a runAppleScript that hands on what execAsync gave as it is
runAppleScriptUnclassified(script, S, fault) ==
  WithRaw(runAppleScriptRaw(script, S, fault), runAppleScriptRaw(script, S, fault))

\* what runAppleScript makes of what execAsync gave: the trimmed reply on
\* success, the access-denied error for a diagnostic with the marker, else
\* the error as it is
Classified(script, r) ==
  IF r.ok THEN WithRaw(IF TextReply(script) THEN [r EXCEPT !.out = JsTrim(@)] ELSE r, r)
  ELSE IF IncludesNotAuthorized(r.err) THEN WithRaw([r EXCEPT !.err = AccessDenied], r)
  ELSE WithRaw(r, r)

\* runAppleScript: the trimmed reply on success, else the error it throws
runAppleScript(script, S, fault) ==
  Classified(script, runAppleScriptRaw(script, S, fault))

(***************************************************************************)
(* Decoding and normalising a reply.                                       *)
(***************************************************************************)
\* JSON.parse of the reply inside runAppleScriptJSON: ok is FALSE when the
\* reply is no JSON, and the caller then holds the raw text
JsonParse(wire) ==
  IF \A j \in 1..Len(wire) :
       /\ JsonString(wire[j].id).ok
       /\ JsonString(wire[j].name).ok
       /\ ("body" \in DOMAIN wire[j] => JsonString(wire[j].body).ok)
       /\ ("list" \in DOMAIN wire[j] => JsonString(wire[j].list).ok)
  THEN [ok |-> TRUE,
        records |-> [j \in 1..Len(wire) |->
          IF "body" \in DOMAIN wire[j]
          THEN [wire[j] EXCEPT !.id = JsonString(@).s, !.name = JsonString(@).s,
                               !.body = JsonString(@).s, !.list = JsonString(@).s]
          ELSE [wire[j] EXCEPT !.id = JsonString(@).s, !.name = JsonString(@).s]]]
  ELSE [ok |-> FALSE, records |-> <<>>]

\* a formatISODate that hands a text that is no date back as it is
formatISODateEchoes(dateStr) ==
  IF dateStr.k = "isot" THEN IsoInstant(dateStr.t * 1000) ELSE dateStr

\* "" for nothing, for `missing value` and for an Invalid Date, else
\* toISOString() of the instant the text names
formatISODate(dateStr) ==
  IF dateStr.k \in {"empty", "missing value"} THEN EmptyDate
  ELSE IF dateStr.k = "isot" THEN IsoInstant(dateStr.t * 1000)
  ELSE EmptyDate

Word(w) == [t |-> "string", w |-> w]

\* the .map of searchReminders, getDueToday, getOverdue, getUpcoming: the
\* three dates only
NormalizeDates(r) ==
  [id |-> r.id, name |-> r.name, body |-> r.body, completed |-> r.completed,
   dueDate |-> IF r.dueDate.k # "empty" THEN formatISODate(r.dueDate) ELSE EmptyDate,
   priority |-> r.priority, list |-> r.list,
   creationDate |-> formatISODate(r.creationDate),
   modificationDate |-> formatISODate(r.modificationDate),
   flagged |-> IF r.hasFlagged THEN Bool(r.flagged) ELSE Undef,
   url |-> Undef, priorityName |-> Undef]

\* the .map of getReminders and getFlagged: dates, priorityName, url, flagged
NormalizeFull(r) ==
  [NormalizeDates(r) EXCEPT
     !.priorityName = Word(getPriorityName(r.priority)),
     !.url = Str(<<>>),
     !.flagged = Bool(r.hasFlagged /\ r.flagged)]

\* a sort that leaves the records as they came
SortByDueKeeps(seq) == seq

RECURSIVE SortByDue(_)
\* Array.prototype.sort with (a, b) => time(a.dueDate) - time(b.dueDate):
\* stable, ascending
SortByDue(seq) ==
  IF seq = <<>> THEN <<>>
  ELSE LET n == Len(seq)
           init == SortByDue(SubSeq(seq, 1, n - 1))
           x == seq[n]
           after == {j \in 1..Len(init) : init[j].dueDate.t > x.dueDate.t}
           at == IF after = {} THEN Len(init) + 1
                 ELSE CHOOSE j \in after : \A i \in after : j <= i
       IN SubSeq(init, 1, at - 1) \o <<x>> \o SubSeq(init, at, Len(init))

(***************************************************************************)
(* Tool calls.  calls[c] is one inbound call: pc is idle, exec (its        *)
(* subprocess is running) or done (response holds what the                 *)
(* CallToolRequestSchema handler returned).  For a bulk call k is the item *)
(* being worked on, count the success counter (created / completed /       *)
(* deleted) and errors the error list; the item field of an error entry is *)
(* the position of the item in the input, kept for the order properties.   *)
(***************************************************************************)
Slots == {1}

NoResponse == [kind |-> "none", isError |-> FALSE, value |-> <<>>, text |-> NoMsg]
\* { content: [{ type: "text", text: JSON.stringify(result) }] }
ResultOf(value) == [kind |-> "result", isError |-> FALSE, value |-> value, text |-> NoMsg]
\* { content: [{ type: "text", text: `Error: ${error.message}` }], isError: true }
ErrorOf(msg) == [kind |-> "error", isError |-> TRUE, value |-> <<>>, text |-> <<"Error:">> \o msg]

Success(id) == [success |-> TRUE, id |-> id, error |-> NoMsg]
Failure(msg) == [success |-> FALSE, id |-> <<>>, error |-> msg]

\* how the call's latest subprocess ended: the injected process fault, and
\* what runAppleScript gave (ok, or the message of the error it threw)
NoRun == [fault |-> "unspawned", ok |-> TRUE, err |-> NoMsg,
          raw |-> [out |-> <<>>, err |-> NoMsg]]
Ran(fault, r) == [fault |-> fault, ok |-> r.ok, err |-> r.err, raw |-> r.raw]

IdleCall == [pc |-> "idle", tool |-> "none", args |-> <<>>, script |-> NoScript,
             k |-> 0, count |-> 0, errors |-> <<>>, spawned |-> 0,
             last |-> NoRun, response |-> NoResponse]

NoArgs == [name |-> Undef, body |-> Undef, list |-> Undef, due_date |-> Undef,
           priority |-> Undef, flagged |-> Undef, reminder_id |-> Undef,
           query |-> Undef, limit |-> Undef, completed |-> Undef, days |-> Undef,
           reminders |-> Undef, reminder_ids |-> Undef]

Required(field) == <<field, "is", "required">>
RequiredArray(field) == <<field, "array", "is", "required">>

CanCall(c) == calls[c].pc = "idle"

\* the call ends inside handleToolCall without a subprocess
Ended(c, tool, args, response) ==
  /\ calls' = [calls EXCEPT ![c] = [IdleCall EXCEPT !.pc = "done", !.tool = tool,
                                      !.args = args, !.response = response]]
  /\ snap' = [snap EXCEPT ![c] = Store]
  /\ UNCHANGED <<lists, reminders, nextId, now>>

\* the call spawns osascript with the rendered script and awaits it
Spawned(c, tool, args, script, k) ==
  /\ calls' = [calls EXCEPT ![c] = [IdleCall EXCEPT !.pc = "exec", !.tool = tool,
                                      !.args = args, !.script = script, !.k = k,
                                      !.spawned = 1]]
  /\ snap' = [snap EXCEPT ![c] = Store]
  /\ UNCHANGED <<lists, reminders, nextId, now>>

\* a throw ends the call with the error payload, a render spawns
ThrowOrSpawn(c, tool, args, r) ==
  IF r.throws THEN Ended(c, tool, args, ErrorOf(TypeErrorMsg))
  ELSE Spawned(c, tool, args, r.script, 0)

StoreBecomes(S) ==
  /\ lists' = S.lists
  /\ reminders' = S.reminders
  /\ nextId' = S.nextId
  /\ now' = S.now

Init ==
  /\ lists = <<DefaultListName>>
  /\ reminders = <<>>
  /\ nextId = 1
  /\ now = 1000000
  /\ calls = [c \in Slots |-> IdleCall]
  /\ snap = [c \in Slots |-> [lists |-> <<DefaultListName>>, reminders |-> <<>>,
                              nextId |-> 1, now |-> 1000000]]

(***************************************************************************)
(* handleToolCall, one action per tool: validation, rendering, and either  *)
(* the end of the call or the spawn of its subprocess.                     *)
(***************************************************************************)
CallCreate(c, args) ==
  /\ CanCall(c)
  /\ nextId <= MaxIds
  /\ IF ~Truthy(args.name)
     THEN Ended(c, "reminders_create", args, ErrorOf(Required("name")))
     ELSE ThrowOrSpawn(c, "reminders_create", args,
            createReminder([name |-> args.name, body |-> args.body,
                            list |-> args.list, dueDate |-> args.due_date,
                            priority |-> args.priority, flagged |-> args.flagged]))

\* a handler that passes reminder_id || "" on, as reminders_open does
CallByIdUnchecked(c, tool, op, args) ==
  /\ CanCall(c)
  /\ ThrowOrSpawn(c, tool, args,
       idScript(op, IF Truthy(args.reminder_id) THEN args.reminder_id ELSE Str(<<>>)))

\* reminders_complete, reminders_uncomplete, reminders_delete
CallById(c, tool, op, args) ==
  /\ CanCall(c)
  /\ IF ~Truthy(args.reminder_id)
     THEN Ended(c, tool, args, ErrorOf(Required("reminder_id")))
     ELSE ThrowOrSpawn(c, tool, args, idScript(op, args.reminder_id))

CallComplete(c, args) == CallById(c, "reminders_complete", "complete", args)

CallUncomplete(c, args) == CallById(c, "reminders_uncomplete", "uncomplete", args)

CallDelete(c, args) == CallById(c, "reminders_delete", "delete", args)

CallUpdate(c, args) ==
  /\ CanCall(c)
  /\ IF ~Truthy(args.reminder_id)
     THEN Ended(c, "reminders_update", args, ErrorOf(Required("reminder_id")))
     ELSE LET r == updateReminder(args.reminder_id,
                     [name |-> args.name, body |-> args.body,
                      dueDate |-> args.due_date, priority |-> args.priority,
                      flagged |-> args.flagged])
          IN IF r.throws THEN Ended(c, "reminders_update", args, ErrorOf(TypeErrorMsg))
             ELSE IF r.empty
             THEN Ended(c, "reminders_update", args, ResultOf(Failure(NoUpdatesProvided)))
             ELSE Spawned(c, "reminders_update", args, r.script, 0)

\* reminders_create_list, reminders_delete_list, reminders_open_list
CallByName(c, tool, op, args) ==
  /\ CanCall(c)
  /\ IF ~Truthy(args.name)
     THEN Ended(c, tool, args, ErrorOf(Required("name")))
     ELSE ThrowOrSpawn(c, tool, args, listScript(op, args.name))

CallCreateList(c, args) == CallByName(c, "reminders_create_list", "createList", args)

CallDeleteList(c, args) == CallByName(c, "reminders_delete_list", "deleteList", args)

CallOpenList(c, args) == CallByName(c, "reminders_open_list", "openList", args)

\* reminders_open: openReminder(args.reminder_id || ""), which only activates
CallOpen(c, args) ==
  /\ CanCall(c)
  /\ Spawned(c, "reminders_open", args, [op |-> "open"], 0)

CallCheckPermissions(c, args) ==
  /\ CanCall(c)
  /\ Spawned(c, "reminders_check_permissions", args, [op |-> "countLists"], 0)

CallGetLists(c, args) ==
  /\ CanCall(c)
  /\ Spawned(c, "reminders_get_lists", args, [op |-> "getLists"], 0)

\* getReminders(args.list, {completed, limit}) up to the subprocess
getReminders(listName, completed, limit) ==
  IF Truthy(listName) /\ ~IsStr(listName) THEN Throws
  ELSE Renders([op |-> "getReminders", list |-> listTarget(listName),
                completed |-> IF completed.t = "boolean"
                              THEN (IF completed.b THEN "true" ELSE "false")
                              ELSE "any",
                limit |-> IF limit.t = "number" THEN limit.n ELSE DefaultLimit])

CallGetReminders(c, args) ==
  /\ CanCall(c)
  /\ ThrowOrSpawn(c, "reminders_get_reminders", args,
       getReminders(args.list, args.completed, args.limit))

\* searchReminders(query, {list, limit}) up to the subprocess
searchReminders(query, list, limit) ==
  IF ~IsStr(query) \/ (Truthy(list) /\ ~IsStr(list)) THEN Throws
  ELSE Renders([op |-> "search", query |-> EscapeQuotes(JsToLowerCase(query.s)),
                list |-> listTarget(list),
                limit |-> IF limit.t = "number" THEN limit.n ELSE SearchLimit])

CallSearch(c, args) ==
  /\ CanCall(c)
  /\ IF ~Truthy(args.query)
     THEN Ended(c, "reminders_search", args, ErrorOf(Required("query")))
     ELSE ThrowOrSpawn(c, "reminders_search", args,
            searchReminders(args.query, args.list, args.limit))

CallGetDueToday(c, args) ==
  /\ CanCall(c)
  /\ Spawned(c, "reminders_get_due_today", args, [op |-> "dueToday"], 0)

CallGetOverdue(c, args) ==
  /\ CanCall(c)
  /\ Spawned(c, "reminders_get_overdue", args, [op |-> "overdue"], 0)

\* a handler with getUpcoming(args.days ?? 7): 0 days are passed on
CallGetUpcomingNullish(c, args) ==
  /\ CanCall(c)
  /\ Spawned(c, "reminders_get_upcoming", args,
       [op |-> "upcoming",
        days |-> IF args.days.t = "number" THEN args.days.n ELSE DefaultDays], 0)

\* getUpcoming(args.days || 7)
CallGetUpcoming(c, args) ==
  /\ CanCall(c)
  /\ Spawned(c, "reminders_get_upcoming", args,
       [op |-> "upcoming", days |-> IF Truthy(args.days) THEN args.days.n ELSE DefaultDays], 0)

CallGetFlagged(c, args) ==
  /\ CanCall(c)
  /\ Spawned(c, "reminders_get_flagged", args, [op |-> "flagged"], 0)

(***************************************************************************)
(* The subprocess of a call ends: the script runs against the store, or    *)
(* the process fails, and the operation's continuation runs.               *)
(***************************************************************************)
MutationTools == {"reminders_create", "reminders_complete", "reminders_uncomplete",
                  "reminders_delete", "reminders_update", "reminders_create_list",
                  "reminders_delete_list", "reminders_open", "reminders_open_list"}
ReadTools == {"reminders_get_lists", "reminders_get_reminders", "reminders_search",
              "reminders_get_due_today", "reminders_get_overdue",
              "reminders_get_upcoming", "reminders_get_flagged"}
BulkTools == {"reminders_bulk_create", "reminders_bulk_complete", "reminders_bulk_delete"}

\* try { await runAppleScript(script); return { success: true [, id] } }
\* catch (error) { return { success: false, error: error.message } }
MutationOutcome(tool, r) ==
  IF r.ok
  THEN ResultOf(Success(IF tool \in {"reminders_create", "reminders_create_list"}
                        THEN r.out ELSE <<>>))
  ELSE ResultOf(Failure(r.err))

\* a mutation that starts its subprocess a second time when the first fails
ExecMutationRetries(c) ==
  /\ calls[c].pc = "exec"
  /\ calls[c].tool \in MutationTools
  /\ \E fault \in Faults :
       LET r == runAppleScript(calls[c].script, Store, fault) IN
       /\ StoreBecomes(r.S)
       /\ calls' = IF ~r.ok /\ calls[c].spawned = 1
                   THEN [calls EXCEPT ![c].spawned = 2, ![c].last = Ran(fault, r)]
                   ELSE [calls EXCEPT ![c].pc = "done", ![c].script = NoScript,
                                      ![c].last = Ran(fault, r),
                                      ![c].response = MutationOutcome(calls[c].tool, r)]
  /\ UNCHANGED snap

ExecMutation(c) ==
  /\ calls[c].pc = "exec"
  /\ calls[c].tool \in MutationTools
  /\ \E fault \in Faults :
       LET r == runAppleScript(calls[c].script, Store, fault) IN
       /\ StoreBecomes(r.S)
       /\ calls' = [calls EXCEPT ![c].pc = "done", ![c].script = NoScript,
                                 ![c].last = Ran(fault, r),
                                 ![c].response = MutationOutcome(calls[c].tool, r)]
  /\ UNCHANGED snap

\* checkPermissions: the failure is caught and reported in the status
ExecPermissions(c) ==
  /\ calls[c].pc = "exec"
  /\ calls[c].tool = "reminders_check_permissions"
  /\ \E fault \in Faults :
       LET r == runAppleScript(calls[c].script, Store, fault) IN
       /\ StoreBecomes(r.S)
       /\ calls' = [calls EXCEPT ![c].pc = "done", ![c].script = NoScript,
                                 ![c].last = Ran(fault, r),
                                 ![c].response = ResultOf([reminders |-> r.ok])]
  /\ UNCHANGED snap

\* the reply of a subprocess that went well: a reply that is no JSON is handed
\* on as text, which getLists returns and on which the others' .map throws
ReadMapped(tool, r) ==
  LET p == JsonParse(r.out) IN
  IF tool = "reminders_get_lists" THEN ResultOf(p)
  ELSE IF ~p.ok THEN ErrorOf(TypeErrorMsg)
  ELSE LET Norm(x) == IF tool \in {"reminders_get_reminders", "reminders_get_flagged"}
                      THEN NormalizeFull(x) ELSE NormalizeDates(x)
           mapped == [j \in 1..Len(p.records) |-> Norm(p.records[j])]
       IN ResultOf([parsed |-> TRUE,
                    records |-> IF tool = "reminders_get_upcoming"
                                THEN SortByDue(mapped) ELSE mapped])

\* a read that answers a failed subprocess with the empty list
ReadOutcomeSwallows(tool, r) ==
  IF ~r.ok THEN ResultOf([parsed |-> TRUE, records |-> <<>>]) ELSE ReadMapped(tool, r)

\* the read operations after `await runAppleScriptJSON(script)`: a failed
\* subprocess is a throw, which the wrapper answers with the error payload
ReadOutcome(tool, r) ==
  IF ~r.ok THEN ErrorOf(r.err) ELSE ReadMapped(tool, r)

ExecRead(c) ==
  /\ calls[c].pc = "exec"
  /\ calls[c].tool \in ReadTools
  /\ \E fault \in Faults :
       LET r == runAppleScript(calls[c].script, Store, fault) IN
       /\ StoreBecomes(r.S)
       /\ calls' = [calls EXCEPT ![c].pc = "done", ![c].script = NoScript,
                                 ![c].last = Ran(fault, r),
                                 ![c].response = ReadOutcome(calls[c].tool, r)]
  /\ UNCHANGED snap

(***************************************************************************)
(* The bulk operations: a for loop awaiting one single-item operation per  *)
(* item.                                                                   *)
(***************************************************************************)
BulkItems(tool, args) ==
  IF tool = "reminders_bulk_create" THEN args.reminders.items ELSE args.reminder_ids.items

\* the single-item operation of item k up to its subprocess
BulkItemScript(tool, args, k) ==
  LET item == BulkItems(tool, args)[k] IN
  CASE tool = "reminders_bulk_create" ->
         createReminder([name |-> item.name, body |-> item.body, list |-> args.list,
                         dueDate |-> item.dueDate, priority |-> item.priority,
                         flagged |-> item.flagged])
    [] tool = "reminders_bulk_complete" -> idScript("complete", item)
    [] OTHER -> idScript("delete", item)

\* what `Failed to ... <identifier>` names: the descriptor's name, or the id
BulkIdent(tool, args, k) ==
  IF tool = "reminders_bulk_create" THEN BulkItems(tool, args)[k].name
  ELSE BulkItems(tool, args)[k]

\* a result whose success flag keeps its initial value
BulkSuccessAlways(errors) == TRUE

\* results.success = results.errors.length === 0
BulkSuccess(errors) == Len(errors) = 0

\* a loop that starts the subprocesses of all its items before it awaits one
BulkNextAllAtOnce(cur, k) ==
  IF k > Len(BulkItems(cur.tool, cur.args))
  THEN [cur EXCEPT !.pc = "done", !.script = NoScript, !.k = k - 1,
                   !.response = ResultOf([success |-> BulkSuccess(cur.errors),
                                          count |-> cur.count, errors |-> cur.errors])]
  ELSE [cur EXCEPT !.pc = "exec", !.k = k,
                   !.script = BulkItemScript(cur.tool, cur.args, k).script,
                   !.spawned = Len(BulkItems(cur.tool, cur.args))]

\* the loop reaches item k with the call record cur: past the last item it
\* returns the results; a render that throws rejects the whole call; else
\* the item's subprocess is spawned
BulkNext(cur, k) ==
  IF k > Len(BulkItems(cur.tool, cur.args))
  THEN [cur EXCEPT !.pc = "done", !.script = NoScript, !.k = k - 1,
                   !.response = ResultOf([success |-> BulkSuccess(cur.errors),
                                          count |-> cur.count, errors |-> cur.errors])]
  ELSE LET r == BulkItemScript(cur.tool, cur.args, k) IN
       IF r.throws
       THEN [cur EXCEPT !.pc = "done", !.script = NoScript, !.k = k,
                        !.response = ErrorOf(TypeErrorMsg)]
       ELSE [cur EXCEPT !.pc = "exec", !.script = r.script, !.k = k,
                        !.spawned = @ + 1]

\* if (result.success) results.<counter>++ else results.errors.push(...)
BulkRecord(cur, r) ==
  IF r.ok THEN [cur EXCEPT !.count = @ + 1]
  ELSE [cur EXCEPT !.errors = Append(@, [item |-> cur.k,
                                          ident |-> BulkIdent(cur.tool, cur.args, cur.k),
                                          error |-> r.err])]

CallBulk(c, tool, field, args) ==
  /\ CanCall(c)
  /\ IF args[field].t # "array"
     THEN Ended(c, tool, args, ErrorOf(RequiredArray(field)))
     ELSE /\ calls' = [calls EXCEPT ![c] =
                         BulkNext([IdleCall EXCEPT !.tool = tool, !.args = args], 1)]
          /\ snap' = [snap EXCEPT ![c] = Store]
          /\ UNCHANGED <<lists, reminders, nextId, now>>

CallBulkCreate(c, args) ==
  /\ args.reminders.t = "array" => nextId + Len(args.reminders.items) - 1 <= MaxIds
  /\ CallBulk(c, "reminders_bulk_create", "reminders", args)

CallBulkComplete(c, args) == CallBulk(c, "reminders_bulk_complete", "reminder_ids", args)

CallBulkDelete(c, args) == CallBulk(c, "reminders_bulk_delete", "reminder_ids", args)

\* bulk functions that keep their counter and error list in one object of
\* the module: the end of an item's subprocess is recorded in every bulk
\* call in flight
ExecBulkShared(c) ==
  /\ calls[c].pc = "exec"
  /\ calls[c].tool \in BulkTools
  /\ \E fault \in Faults :
       LET r == runAppleScript(calls[c].script, Store, fault) IN
       /\ StoreBecomes(r.S)
       /\ calls' = [d \in DOMAIN calls |->
            IF d = c
            THEN BulkNext(BulkRecord([calls[c] EXCEPT !.last = Ran(fault, r)], r),
                          calls[c].k + 1)
            ELSE IF calls[d].pc = "exec" /\ calls[d].tool \in BulkTools
            THEN [calls[d] EXCEPT !.count = @ + 1]
            ELSE calls[d]]
  /\ UNCHANGED snap

\* the subprocess of item k ends; the loop goes on with item k + 1
ExecBulk(c) ==
  /\ calls[c].pc = "exec"
  /\ calls[c].tool \in BulkTools
  /\ \E fault \in Faults :
       LET r == runAppleScript(calls[c].script, Store, fault) IN
       /\ StoreBecomes(r.S)
       /\ calls' = [calls EXCEPT ![c] =
            BulkNext(BulkRecord([calls[c] EXCEPT !.last = Ran(fault, r)], r),
                     calls[c].k + 1)]
  /\ UNCHANGED snap

(***************************************************************************)
(* The calls the specification Spec issues.                                *)
(***************************************************************************)
SeqsUpTo(S, n) == UNION {[1..m -> S] : m \in 0..n}

IdArgs == {Undef, Num(7)} \cup {Str(IdOf(n)) : n \in 1..MaxIds}

Descriptor(name) ==
  [name |-> name, body |-> Undef, dueDate |-> Undef, priority |-> Undef,
   flagged |-> Undef]

CreateArgs == {[NoArgs EXCEPT !.name = n] : n \in {Undef, Str(<<"a">>)}}
ByIdArgs == {[NoArgs EXCEPT !.reminder_id = i] : i \in IdArgs}
UpdateArgs == {[NoArgs EXCEPT !.reminder_id = i, !.flagged = f] :
                 i \in IdArgs, f \in {Undef, Bool(TRUE)}}
ListArgs == {[NoArgs EXCEPT !.name = n] : n \in {Undef, Str(WorkListName)}}
GetRemindersArgs == {NoArgs, [NoArgs EXCEPT !.limit = Num(1)]}
SearchArgs == {[NoArgs EXCEPT !.query = q] : q \in {Undef, Str(<<"A">>)}}
BulkCreateArgs ==
  {[NoArgs EXCEPT !.reminders = v] :
     v \in {Undef} \cup {Arr(d) : d \in SeqsUpTo({Descriptor(Undef), Descriptor(Str(<<"a">>))},
                                                 MaxBulk)}}
BulkIdArgs ==
  {[NoArgs EXCEPT !.reminder_ids = v] :
     v \in {Undef} \cup {Arr(d) : d \in SeqsUpTo({Str(IdOf(1)), Str(IdOf(2)), Num(7)}, MaxBulk)}}

\* the handler's return value goes back to the transport; the slot is free
Return(c) ==
  /\ calls[c].pc = "done"
  /\ calls' = [calls EXCEPT ![c] = IdleCall]
  /\ snap' = [snap EXCEPT ![c] = Store]
  /\ UNCHANGED <<lists, reminders, nextId, now>>

\* Spec: the single-item tools and the queries, one call at a time; of the
\* bulk tools only the calls that name no array (SpecBulk has the others)
Next ==
  \E c \in Slots :
    \/ \E a \in CreateArgs : CallCreate(c, a)
    \/ \E a \in ByIdArgs : CallComplete(c, a)
    \/ \E a \in ByIdArgs : CallUncomplete(c, a)
    \/ \E a \in ByIdArgs : CallDelete(c, a)
    \/ \E a \in UpdateArgs : CallUpdate(c, a)
    \/ \E a \in ListArgs : CallCreateList(c, a)
    \/ \E a \in ListArgs : CallDeleteList(c, a)
    \/ \E a \in ListArgs : CallOpenList(c, a)
    \/ CallOpen(c, NoArgs)
    \/ CallCheckPermissions(c, NoArgs)
    \/ CallGetLists(c, NoArgs)
    \/ \E a \in GetRemindersArgs : CallGetReminders(c, a)
    \/ \E a \in SearchArgs : CallSearch(c, a)
    \/ CallGetDueToday(c, NoArgs)
    \/ CallGetOverdue(c, NoArgs)
    \/ CallGetUpcoming(c, NoArgs)
    \/ CallGetFlagged(c, NoArgs)
    \/ CallBulkCreate(c, NoArgs)
    \/ CallBulkComplete(c, NoArgs)
    \/ CallBulkDelete(c, NoArgs)
    \/ ExecMutation(c)
    \/ ExecPermissions(c)
    \/ ExecRead(c)
    \/ Return(c)

Spec == Init /\ [][Next]_vars

\* SpecBulk: the bulk tools, with single creates and deletes between them
NextBulk ==
  \E c \in Slots :
    \/ \E a \in CreateArgs : CallCreate(c, a)
    \/ \E a \in ByIdArgs : CallDelete(c, a)
    \/ \E a \in BulkCreateArgs : CallBulkCreate(c, a)
    \/ \E a \in BulkIdArgs : CallBulkComplete(c, a)
    \/ \E a \in BulkIdArgs : CallBulkDelete(c, a)
    \/ ExecMutation(c)
    \/ ExecBulk(c)
    \/ Return(c)

SpecBulk == Init /\ [][NextBulk]_vars

TypeOK ==
  /\ nextId >= 1
  /\ Len(reminders) < nextId
  /\ \A c \in Slots : calls[c].pc \in {"idle", "exec", "done"}

\* ---------------------------------------------------------------------------
\* Properties of the bulk tools (SpecBulk)
\* ---------------------------------------------------------------------------

BulkDone(c) ==
  /\ calls[c].pc = "done"
  /\ calls[c].tool \in BulkTools
  /\ calls[c].args[IF calls[c].tool = "reminders_bulk_create"
                   THEN "reminders" ELSE "reminder_ids"].t = "array"

BulkN(c) == Len(BulkItems(calls[c].tool, calls[c].args))

\* the descriptors of a bulk create that carry no name
InvalidItems(c) ==
  {k \in 1..BulkN(c) : ~IsStr(BulkItems(calls[c].tool, calls[c].args)[k].name)}

ErrorsOn(c, items) ==
  {e \in 1..Len(calls[c].response.value.errors) :
     calls[c].response.value.errors[e].item \in items}

\* C1: a bulk create whose input holds an invalid descriptor (one without a
\* name) still returns a result: success is false, each invalid descriptor has
\* exactly one error entry, and every valid descriptor is created or has its
\* own error entry, so that created = valid descriptors that did not fail.
C1_BulkCreateCollectsInvalid ==
  \A c \in Slots :
    (BulkDone(c) /\ calls[c].tool = "reminders_bulk_create" /\ InvalidItems(c) # {}) =>
      /\ calls[c].response.kind = "result"
      /\ calls[c].response.value.success = FALSE
      /\ \A k \in InvalidItems(c) : Cardinality(ErrorsOn(c, {k})) = 1
      /\ calls[c].response.value.count
           + Cardinality(ErrorsOn(c, (1..BulkN(c)) \ InvalidItems(c)))
         = BulkN(c) - Cardinality(InvalidItems(c))

\* C2: a bulk create, complete or delete never stops before its last item:
\* when the call ends, all N items of the input have been attempted.
C2_BulkNeverAbortsEarly ==
  \A c \in Slots : BulkDone(c) => calls[c].k = BulkN(c)

\* C3: in every result a bulk tool returns over N items, success is true
\* exactly when the error list is empty, the counter plus the number of error
\* entries is N, and the error entries follow the input order of their items.
C3_BulkResultShape ==
  \A c \in Slots :
    (BulkDone(c) /\ calls[c].response.kind = "result") =>
      LET res == calls[c].response.value IN
      /\ res.success <=> (Len(res.errors) = 0)
      /\ res.count + Len(res.errors) = BulkN(c)
      /\ \A e \in 1..Len(res.errors) :
           /\ res.errors[e].item \in 1..BulkN(c)
           /\ res.errors[e].ident = BulkIdent(calls[c].tool, calls[c].args,
                                              res.errors[e].item)
      /\ \A e, f \in 1..Len(res.errors) :
           e < f => res.errors[e].item < res.errors[f].item

\* a bulk call over three items of which some succeeded and some failed
C3_Witness ==
  \E c \in Slots :
    /\ BulkDone(c)
    /\ calls[c].response.kind = "result"
    /\ BulkN(c) = 3
    /\ calls[c].response.value.count >= 1
    /\ Len(calls[c].response.value.errors) >= 1
    /\ ~calls[c].response.value.success

\* ---------------------------------------------------------------------------
\* Properties of the single-item tools and the queries (Spec)
\* ---------------------------------------------------------------------------

Done(c, tools) == calls[c].pc = "done" /\ calls[c].tool \in tools

\* the store without the modification stamps, which the host keeps for itself
Fields(S) ==
  [lists |-> S.lists, nextId |-> S.nextId,
   reminders |-> [j \in 1..Len(S.reminders) |-> [S.reminders[j] EXCEPT !.modified = 0]]]

\* the reminder the call names, as it was when the call came in (0: none)
TargetBefore(c) ==
  IF IsStr(calls[c].args.reminder_id)
  THEN RemIndex(snap[c], calls[c].args.reminder_id.s) ELSE 0

\* C7: completing a reminder that is already completed, and uncompleting one
\* that is already incomplete, returns success true (the subprocess not being
\* hit by a process failure) and leaves the store as it was.
C7_CompleteUncompleteIdempotent ==
  \A c \in Slots :
    (/\ Done(c, {"reminders_complete", "reminders_uncomplete"})
     /\ TargetBefore(c) # 0
     /\ snap[c].reminders[TargetBefore(c)].completed
          = (calls[c].tool = "reminders_complete")) =>
      /\ Fields(Store) = Fields(snap[c])
      /\ calls[c].response.kind = "result"
      /\ calls[c].last.fault = "none" => calls[c].response.value.success

\* a completed reminder was completed again, successfully
C7_Witness ==
  \E c \in Slots :
    /\ Done(c, {"reminders_complete"})
    /\ TargetBefore(c) # 0
    /\ snap[c].reminders[TargetBefore(c)].completed
    /\ calls[c].response.kind = "result"
    /\ calls[c].response.value.success

\* the ids the store handed out and holds no more
DeletedIds(S) == {IdOf(n) : n \in 1..(S.nextId - 1)} \ {S.reminders[j].id : j \in 1..Len(S.reminders)}

\* C8: once an id has been deleted, every later complete, uncomplete, update
\* or delete that names it returns success false with an error message.
C8_DeletedIdFails ==
  \A c \in Slots :
    (/\ Done(c, {"reminders_complete", "reminders_uncomplete",
                 "reminders_update", "reminders_delete"})
     /\ IsStr(calls[c].args.reminder_id)
     /\ calls[c].args.reminder_id.s \in DeletedIds(snap[c])) =>
      /\ calls[c].response.kind = "result"
      /\ calls[c].response.value.success = FALSE
      /\ calls[c].response.value.error # NoMsg
      /\ Fields(Store) = Fields(snap[c])

\* a delete of an id that had been deleted before was refused by the host
C8_Witness ==
  \E c \in Slots :
    /\ Done(c, {"reminders_delete"})
    /\ IsStr(calls[c].args.reminder_id)
    /\ calls[c].args.reminder_id.s \in DeletedIds(snap[c])
    /\ calls[c].last.fault = "none"
    /\ calls[c].response.value.success = FALSE
    /\ calls[c].response.value.error = CantGetReminder

\* the field each tool's input schema requires
RequiredField(tool) ==
  CASE tool \in {"reminders_create", "reminders_create_list", "reminders_delete_list",
                 "reminders_open_list"} -> "name"
    [] tool \in {"reminders_complete", "reminders_uncomplete", "reminders_delete",
                 "reminders_update"} -> "reminder_id"
    [] tool = "reminders_search" -> "query"
    [] tool = "reminders_bulk_create" -> "reminders"
    [] tool \in {"reminders_bulk_complete", "reminders_bulk_delete"} -> "reminder_ids"
    [] OTHER -> "none"

\* the call is over and its arguments lack the field its tool requires
LacksRequired(c) ==
  /\ calls[c].pc = "done"
  /\ RequiredField(calls[c].tool) # "none"
  /\ calls[c].args[RequiredField(calls[c].tool)] = Undef

NothingDone(c) == calls[c].spawned = 0 /\ Store = snap[c]

\* C9 as stated: a call that lacks the field its tool requires fails with
\* `<field> is required`, starts no subprocess and leaves the store unchanged.
C9_RequiredMessage ==
  \A c \in Slots :
    LacksRequired(c) =>
      /\ calls[c].response = ErrorOf(Required(RequiredField(calls[c].tool)))
      /\ NothingDone(c)

\* C9: a call that lacks the field its tool requires fails before any
\* subprocess is started and with the store unchanged; the message is
\* `<field> is required` for name, reminder_id and query, and
\* `<field> array is required` for reminders and reminder_ids.
C9_ValidationBeforeSpawn ==
  \A c \in Slots :
    LacksRequired(c) =>
      LET field == RequiredField(calls[c].tool) IN
      /\ calls[c].response.kind = "error"
      /\ calls[c].response.isError
      /\ calls[c].response.text =
           <<"Error:">> \o (IF field \in {"reminders", "reminder_ids"}
                            THEN <<field, "array", "is", "required">>
                            ELSE <<field, "is", "required">>)
      /\ NothingDone(c)

\* a complete without reminder_id was refused while the store held a reminder
C9_Witness ==
  \E c \in Slots :
    /\ LacksRequired(c)
    /\ calls[c].tool = "reminders_complete"
    /\ calls[c].response.text = <<"Error:", "reminder_id", "is", "required">>
    /\ Len(reminders) > 0

SevenMutations == {"reminders_create", "reminders_complete", "reminders_uncomplete",
                   "reminders_delete", "reminders_update", "reminders_create_list",
                   "reminders_delete_list"}

\* C10: when the subprocess fails, a mutating operation returns
\* {success: false, error: <message>} as a value, and a read operation throws,
\* which the tool-call wrapper answers with `Error: <message>` and the error
\* flag set.
C10_SubprocessFailure ==
  \A c \in Slots :
    (calls[c].pc = "done" /\ calls[c].spawned > 0 /\ ~calls[c].last.ok) =>
      /\ calls[c].tool \in SevenMutations =>
           /\ calls[c].response.kind = "result"
           /\ ~calls[c].response.isError
           /\ calls[c].response.value = [success |-> FALSE, id |-> <<>>,
                                         error |-> calls[c].last.err]
      /\ calls[c].tool \in ReadTools =>
           /\ calls[c].response.kind = "error"
           /\ calls[c].response.isError
           /\ calls[c].response.text = <<"Error:">> \o calls[c].last.err

\* a query whose subprocess was refused access ended in the error payload
C10_Witness ==
  \E c \in Slots :
    /\ Done(c, {"reminders_get_reminders"})
    /\ calls[c].spawned > 0
    /\ ~calls[c].last.ok
    /\ calls[c].last.fault = "denied"
    /\ calls[c].response.isError
    /\ calls[c].response.text = <<"Error:">> \o AccessDenied

\* ---------------------------------------------------------------------------
\* SpecText: names and bodies with the characters the script syntax and the
\* wire format treat specially, created and read back
\* ---------------------------------------------------------------------------

MaxText == 2
MaxTextIds == 1

TextChars == {"a", "n", DQ, BS, LF, CR}
Texts == SeqsUpTo(TextChars, MaxText) \ {<<>>}
TextArgs ==
  {[NoArgs EXCEPT !.name = Str(s)] : s \in Texts}
    \cup {[NoArgs EXCEPT !.name = Str(<<"a">>), !.body = Str(s)] : s \in Texts}

NextText ==
  \E c \in Slots :
    \/ \E a \in TextArgs : nextId <= MaxTextIds /\ CallCreate(c, a)
    \/ CallGetReminders(c, NoArgs)
    \/ ExecMutation(c)
    \/ ExecRead(c)
    \/ Return(c)

SpecText == Init /\ [][NextText]_vars

GivenBody(args) == IF IsStr(args.body) THEN args.body.s ELSE <<>>

\* a create that the process layer did not fail stored what it was given
CreateStoresGiven(c) ==
  (Done(c, {"reminders_create"}) /\ IsStr(calls[c].args.name)
     /\ calls[c].last.fault = "none") =>
    /\ calls[c].response.kind = "result"
    /\ calls[c].response.value.success
    /\ \E j \in 1..Len(reminders) :
         /\ reminders[j].id = calls[c].response.value.id
         /\ reminders[j].name = calls[c].args.name.s
         /\ reminders[j].body = GivenBody(calls[c].args)

\* a read that the process layer did not fail returned what is stored
ReadReturnsStored(c) ==
  (Done(c, {"reminders_get_reminders"}) /\ calls[c].last.fault = "none") =>
    /\ calls[c].response.kind = "result"
    /\ Len(calls[c].response.value.records) = Len(reminders)
    /\ \A j \in 1..Len(reminders) :
         /\ calls[c].response.value.records[j].id = reminders[j].id
         /\ calls[c].response.value.records[j].name = reminders[j].name
         /\ calls[c].response.value.records[j].body = reminders[j].body

\* C4: a name or body holding a double quote, a backslash or a line
\* terminator goes through create and read unchanged: the create stores the
\* text it was given and the read returns the stored text, character for
\* character.
C4_TextRoundTrip ==
  \A c \in Slots : CreateStoresGiven(c) /\ ReadReturnsStored(c)

\* ---------------------------------------------------------------------------
\* SpecPriority: create and update with numeric and symbolic priorities, and
\* the read that projects the stored code to its name
\* ---------------------------------------------------------------------------

MaxPriorityIds == 1

PrioritySpellings ==
  {<<"h", "i", "g", "h">>, <<"H", "I", "G", "H">>, <<"H", "i", "g", "h">>,
   <<"m", "e", "d", "i", "u", "m">>, <<"M", "e", "D", "i", "U", "m">>,
   <<"l", "o", "w">>, <<"L", "O", "W">>,
   <<"n", "o", "n", "e">>, <<"N", "o", "n", "e">>,
   <<"u", "r", "g", "e", "n", "t">>, <<"h", "i">>, <<>>}

PriorityArgs ==
  {Undef} \cup {Num(n) : n \in -1..10} \cup {Str(s) : s \in PrioritySpellings}

PriorityCreateArgs ==
  {[NoArgs EXCEPT !.name = Str(<<"a">>), !.priority = p] : p \in PriorityArgs}

PriorityUpdateArgs ==
  {[NoArgs EXCEPT !.reminder_id = Str(IdOf(1)), !.priority = p, !.flagged = f] :
     p \in PriorityArgs, f \in {Undef, Bool(TRUE)}}

NextPriority ==
  \E c \in Slots :
    \/ \E a \in PriorityCreateArgs : nextId <= MaxPriorityIds /\ CallCreate(c, a)
    \/ \E a \in PriorityUpdateArgs : CallUpdate(c, a)
    \/ CallGetReminders(c, NoArgs)
    \/ ExecMutation(c)
    \/ ExecRead(c)
    \/ Return(c)

SpecPriority == Init /\ [][NextPriority]_vars

\* the code the priority table gives each spelling
TableCode(s) ==
  CASE s \in {<<"h", "i", "g", "h">>, <<"H", "I", "G", "H">>, <<"H", "i", "g", "h">>} -> 1
    [] s \in {<<"m", "e", "d", "i", "u", "m">>, <<"M", "e", "D", "i", "U", "m">>} -> 5
    [] s \in {<<"l", "o", "w">>, <<"L", "O", "W">>} -> 9
    [] OTHER -> 0

\* the name the priority table gives each code 0..9
TableName(n) ==
  IF n = 0 THEN "none"
  ELSE <<"high", "high", "high", "high", "medium", "low", "low", "low", "low">>[n]

\* the reminder a finished create or update was about (0: none)
TargetAfter(c) ==
  LET id == IF calls[c].tool = "reminders_create" THEN calls[c].response.value.id
            ELSE calls[c].args.reminder_id.s
  IN RemIndex(Store, id)

CreateOrUpdateOk(c) ==
  /\ Done(c, {"reminders_create", "reminders_update"})
  /\ calls[c].response.kind = "result"
  /\ calls[c].response.value.success

\* C5: a create or update given a symbolic priority persists 1 for high, 5
\* for medium, 9 for low, 0 for none, in any letter case, and 0 for any other
\* name; a read names every code 0..9 none (0), high (1..4), medium (5) or low
\* (6..9); so the name read back for a persisted symbolic input is that input's
\* own name.
C5_PriorityTable ==
  \A c \in Slots :
    /\ (CreateOrUpdateOk(c) /\ calls[c].args.priority.t = "string") =>
         /\ TargetAfter(c) # 0
         /\ reminders[TargetAfter(c)].priority = TableCode(calls[c].args.priority.s)
         /\ getPriorityName(reminders[TargetAfter(c)].priority)
              = TableName(TableCode(calls[c].args.priority.s))
    /\ (Done(c, {"reminders_get_reminders"}) /\ calls[c].response.kind = "result") =>
         \A j \in 1..Len(calls[c].response.value.records) :
           LET rec == calls[c].response.value.records[j] IN
           /\ rec.priority \in 0..9
           /\ rec.priority = reminders[j].priority
           /\ rec.priorityName = Word(TableName(rec.priority))

\* an update spelled "MeDiUm" has persisted 5
C5_Witness ==
  \E c \in Slots :
    /\ CreateOrUpdateOk(c)
    /\ calls[c].tool = "reminders_update"
    /\ calls[c].args.priority = Str(<<"M", "e", "D", "i", "U", "m">>)
    /\ snap[c].reminders[TargetBefore(c)].priority # 5
    /\ reminders[TargetAfter(c)].priority = 5

\* C6: a numeric priority outside 0..9 is dropped: no stored priority is ever
\* outside 0..9, and the create or update that was given it goes on without
\* it and succeeds, also when the priority is the only field of an update.
C6_OutOfDomainPriorityDropped ==
  /\ \A j \in 1..Len(reminders) : reminders[j].priority \in 0..9
  /\ \A c \in Slots :
       (/\ Done(c, {"reminders_create", "reminders_update"})
        /\ calls[c].args.priority.t = "number"
        /\ calls[c].args.priority.n \notin 0..9
        /\ calls[c].last.fault \in {"none", "unspawned"}
        /\ calls[c].tool = "reminders_update" => TargetBefore(c) # 0) =>
         /\ calls[c].response.kind = "result"
         /\ calls[c].response.value.success
         /\ TargetAfter(c) # 0
         /\ reminders[TargetAfter(c)].priority
              = IF calls[c].tool = "reminders_update"
                THEN snap[c].reminders[TargetBefore(c)].priority ELSE 0

\* the diagnostic texts a failed subprocess gives that do not hold the
\* authorization-denial marker
PlainDiagnostics == {TimedOut, SyntaxError, CantGetReminder, CantGetList, ListExists}

\* the error a finished call shows its caller (none: NoMsg)
Surfaced(c) ==
  IF calls[c].response.kind = "error" THEN Tail(calls[c].response.text)
  ELSE IF calls[c].tool \in SevenMutations THEN calls[c].response.value.error
  ELSE NoMsg

\* C11: every failure of the subprocess is classified: a diagnostic text that
\* holds `Not authorized` surfaces as the access-denied error with the System
\* Settings > Privacy & Security > Reminders remedy, any other diagnostic text
\* surfaces unchanged; on success the standard output is returned trimmed.
C11_FailureClassified ==
  \A c \in Slots :
    (calls[c].pc = "done" /\ calls[c].spawned > 0
       /\ calls[c].tool \in SevenMutations \cup ReadTools) =>
      /\ ~calls[c].last.ok =>
           /\ calls[c].last.raw.err \in PlainDiagnostics \cup {NotAuthorized}
           /\ calls[c].last.raw.err = NotAuthorized => Surfaced(c) = AccessDenied
           /\ calls[c].last.raw.err \in PlainDiagnostics =>
                Surfaced(c) = calls[c].last.raw.err
      /\ (calls[c].last.ok /\ calls[c].tool = "reminders_create") =>
           /\ calls[c].last.raw.out = IdOf(snap[c].nextId) \o <<LF>>
           /\ calls[c].response.value.id = IdOf(snap[c].nextId)

\* a create was refused access and reports the remedy
C11_Witness ==
  \E c \in Slots :
    /\ Done(c, {"reminders_create"})
    /\ calls[c].last.raw.err = NotAuthorized
    /\ calls[c].response.value.error = AccessDenied
    /\ SubSeq(AccessDenied, 7, 14)
         = <<"System", "Settings", ">", "Privacy", "&", "Security", ">", "Reminders">>

QueryTools == {"reminders_get_reminders", "reminders_search", "reminders_get_due_today",
               "reminders_get_overdue", "reminders_get_upcoming", "reminders_get_flagged"}

\* the records a finished query returned (none when it threw)
Returned(c) ==
  IF calls[c].response.kind = "result" THEN calls[c].response.value.records ELSE <<>>

\* C12: every record that get reminders, search, due today, overdue, upcoming
\* or flagged returns is fully normalized: flagged is a boolean, url a text,
\* and priorityName the name of the record's numeric priority.
C12_RecordsNormalized ==
  \A c \in Slots :
    Done(c, QueryTools) =>
      \A j \in 1..Len(Returned(c)) :
        /\ Returned(c)[j].flagged.t = "boolean"
        /\ Returned(c)[j].url.t = "string"
        /\ Returned(c)[j].priorityName = Word(TableName(Returned(c)[j].priority))

\* ---------------------------------------------------------------------------
\* SpecDates: the queries decode replies whose three date fields hold any
\* raw value a host can print: nothing, the sentinel, a text that is no
\* date, or a date
\* ---------------------------------------------------------------------------

SentinelDate == [k |-> "missing value", t |-> 0]
GarbageDate == [k |-> "text", t |-> 0]
RawDates == {EmptyDate, SentinelDate, GarbageDate, IsotDate(950400), IsotDate(1000000)}

RawReplies ==
  {<<[id |-> IdOf(1), name |-> <<"a">>, body |-> <<>>, completed |-> FALSE,
      dueDate |-> d, priority |-> 0, hasFlagged |-> FALSE, flagged |-> FALSE,
      list |-> DefaultListName, creationDate |-> cr, modificationDate |-> md]>> :
     d \in RawDates, cr \in RawDates, md \in RawDates}

\* the subprocess of a query ends well with the reply the host printed
ExecReadReply(c) ==
  /\ calls[c].pc = "exec"
  /\ calls[c].tool \in QueryTools
  /\ \E reply \in RawReplies :
       LET r == WithRaw(HostDone(Store, reply), HostDone(Store, reply)) IN
       calls' = [calls EXCEPT ![c].pc = "done", ![c].script = NoScript,
                              ![c].last = Ran("none", r),
                              ![c].response = ReadOutcome(calls[c].tool, r)]
  /\ UNCHANGED <<lists, reminders, nextId, now, snap>>

NextDates ==
  \E c \in Slots :
    \/ CallGetReminders(c, NoArgs)
    \/ CallSearch(c, [NoArgs EXCEPT !.query = Str(<<"a">>)])
    \/ CallGetDueToday(c, NoArgs)
    \/ CallGetOverdue(c, NoArgs)
    \/ CallGetUpcoming(c, NoArgs)
    \/ CallGetFlagged(c, NoArgs)
    \/ ExecReadReply(c)
    \/ Return(c)

SpecDates == Init /\ [][NextDates]_vars

\* empty, or the text of an ISO-8601 instant
NormalDate(d) == d = EmptyDate \/ d.k = "iso"

\* C13: whatever raw value a decoded record holds in a date field (nothing,
\* the sentinel `missing value`, a text that is no date, a date), the query
\* does not throw and returns the empty string or an ISO-8601 instant there:
\* the sentinel and the unparseable text give the empty string, a date gives
\* its instant, and no returned date is the sentinel.
C13_DatesNormalized ==
  \A c \in Slots :
    (Done(c, QueryTools) /\ calls[c].last.fault = "none") =>
      /\ calls[c].response.kind = "result"
      /\ Len(Returned(c)) = Len(calls[c].last.raw.out)
      /\ \A j \in 1..Len(Returned(c)) :
           LET raw == calls[c].last.raw.out[j]
               Norm(d) == IF d.k = "isot" THEN [k |-> "iso", t |-> d.t * 1000]
                          ELSE EmptyDate
           IN /\ Returned(c)[j].dueDate = Norm(raw.dueDate)
              /\ Returned(c)[j].creationDate = Norm(raw.creationDate)
              /\ Returned(c)[j].modificationDate = Norm(raw.modificationDate)
              /\ \A d \in {Returned(c)[j].dueDate, Returned(c)[j].creationDate,
                           Returned(c)[j].modificationDate} :
                   NormalDate(d) /\ d # SentinelDate

\* a reply with the sentinel, a text that is no date and a date was decoded
C13_Witness ==
  \E c \in Slots :
    /\ Done(c, {"reminders_search"})
    /\ Len(Returned(c)) = 1
    /\ calls[c].last.raw.out[1].dueDate = SentinelDate
    /\ calls[c].last.raw.out[1].creationDate = GarbageDate
    /\ calls[c].last.raw.out[1].modificationDate = IsotDate(950400)
    /\ Returned(c)[1].dueDate = EmptyDate
    /\ Returned(c)[1].creationDate = EmptyDate
    /\ Returned(c)[1].modificationDate = IsoInstant(950400000)

\* ---------------------------------------------------------------------------
\* SpecSearch: search and the list-scoped fetch over stores of two lists
\* ---------------------------------------------------------------------------

MaxSearchItems == 3

\* name, body, list, completed of the reminders the stores are built from
SearchShapes ==
  {[name |-> <<"a">>, body |-> <<>>, list |-> DefaultListName, completed |-> FALSE],
   [name |-> <<"x", "A">>, body |-> <<>>, list |-> WorkListName, completed |-> FALSE],
   [name |-> <<"b">>, body |-> <<"a", "b">>, list |-> DefaultListName, completed |-> TRUE],
   [name |-> <<"b">>, body |-> <<>>, list |-> WorkListName, completed |-> TRUE],
   [name |-> <<LowerEacute>>, body |-> <<>>, list |-> DefaultListName, completed |-> FALSE],
   [name |-> <<UpperEacute>>, body |-> <<>>, list |-> WorkListName, completed |-> FALSE]}

\* the reminder of shape sh that the store holds at position n
Shaped(sh, n) ==
  [id |-> IdOf(n), name |-> sh.name, body |-> sh.body, completed |-> sh.completed,
   due |-> NoDue, priority |-> 0, flagged |-> FALSE, list |-> sh.list,
   created |-> 950400, modified |-> 950400]

SearchStores ==
  {[n \in 1..Len(shs) |-> Shaped(shs[n], n)] : shs \in SeqsUpTo(SearchShapes, MaxSearchItems)}

\* a store the user has filled before the server is asked anything
InitSearch ==
  /\ lists = <<DefaultListName, WorkListName>>
  /\ reminders \in SearchStores
  /\ nextId = Len(reminders) + 1
  /\ now = 1000000
  /\ calls = [c \in Slots |-> IdleCall]
  /\ snap = [c \in Slots |-> [lists |-> lists, reminders |-> reminders,
                              nextId |-> nextId, now |-> now]]

Limits == {Undef, Num(0), Num(1), Num(2)}
ListChoices == {Undef, Str(WorkListName)}

SearchQueries == {<<"a">>, <<"A">>, <<"A", "b">>, <<LowerEacute>>, <<UpperEacute>>}

SearchCalls ==
  {[NoArgs EXCEPT !.query = Str(q), !.list = l, !.limit = n] :
     q \in SearchQueries, l \in ListChoices, n \in Limits}

FetchCalls ==
  {[NoArgs EXCEPT !.list = l, !.completed = d, !.limit = n] :
     l \in ListChoices, d \in {Undef, Bool(TRUE), Bool(FALSE)}, n \in Limits}

NextSearch ==
  \E c \in Slots :
    \/ \E a \in SearchCalls : CallSearch(c, a)
    \/ \E a \in FetchCalls : CallGetReminders(c, a)
    \/ ExecRead(c)
    \/ Return(c)

SpecSearch == InitSearch /\ [][NextSearch]_vars

\* the case folding of a comparison that ignores case for every letter, on the
\* characters of SearchShapes and SearchQueries
FoldAll(ch) ==
  CASE ch = "A" -> "a"
    [] ch = "B" -> "b"
    [] ch = UpperEacute -> LowerEacute
    [] OTHER -> ch

\* the case folding that knows A-Z only
FoldAscii(ch) ==
  CASE ch = "A" -> "a"
    [] ch = "B" -> "b"
    [] OTHER -> ch

\* q is a substring of hay once both are folded
Within(hay, q, Fold(_)) ==
  \E i \in 1..(Len(hay) - Len(q) + 1) :
    \A j \in 1..Len(q) : Fold(hay[i + j - 1]) = Fold(q[j])

ListPos(S, name) == CHOOSE k \in 1..Len(S.lists) : S.lists[k] = name

\* position i of the store is enumerated before position j: lists in order,
\* reminders in order within their list
EnumBefore(S, i, j) ==
  \/ ListPos(S, S.reminders[i].list) < ListPos(S, S.reminders[j].list)
  \/ S.reminders[i].list = S.reminders[j].list /\ i < j

\* the records are the first `cap` of the store positions Q, in enumeration
\* order
FirstOf(S, Q, cap, records) ==
  /\ Len(records) = IF cap < Cardinality(Q) THEN (IF cap < 0 THEN 0 ELSE cap)
                    ELSE Cardinality(Q)
  /\ \A k \in 1..Len(records) :
       \E p \in Q : /\ records[k].id = S.reminders[p].id
                    /\ Cardinality({i \in Q : EnumBefore(S, i, p)}) = k - 1

\* the store positions a finished search had to scan
Scanned(c) ==
  {p \in 1..Len(snap[c].reminders) :
     calls[c].args.list = Undef \/ snap[c].reminders[p].list = calls[c].args.list.s}

\* the scanned positions whose name or body holds the query, under a folding
Matches(c, Fold(_)) ==
  {p \in Scanned(c) :
     \/ Within(snap[c].reminders[p].name, calls[c].args.query.s, Fold)
     \/ Within(snap[c].reminders[p].body, calls[c].args.query.s, Fold)}

CapOf(c, default) ==
  IF calls[c].args.limit = Undef THEN default ELSE calls[c].args.limit.n

SearchDone(c) == Done(c, {"reminders_search"}) /\ calls[c].last.fault = "none"

\* C14: search returns at most `limit` records (50 when none is given), and
\* they are the first min(limit, matches) matching reminders in enumeration
\* order: lists in order, reminders in order within each list.
C14_SearchCap ==
  \A c \in Slots :
    SearchDone(c) =>
      /\ calls[c].response.kind = "result"
      /\ Len(Returned(c)) <= CapOf(c, 50)
      /\ FirstOf(snap[c], Matches(c, FoldAll), CapOf(c, 50), Returned(c))

\* limit 1, three matches over both lists, the store's first reminder not
\* the first enumerated: the one record is the first match of the first list
C14_Witness ==
  \E c \in Slots :
    /\ SearchDone(c)
    /\ calls[c].args.limit = Num(1)
    /\ Cardinality(Matches(c, FoldAll)) = 3
    /\ snap[c].reminders[1].list = WorkListName
    /\ \E p \in Matches(c, FoldAll) : snap[c].reminders[p].list = DefaultListName
    /\ Len(Returned(c)) = 1
    /\ Returned(c)[1].list = DefaultListName

ReturnedIds(c) == {Returned(c)[k].id : k \in 1..Len(Returned(c))}

\* C15 as stated: a reminder is returned by an uncapped search exactly when
\* the query is a substring of its name or body under the folding A-Z to
\* a-z, every other character compared as it is.
C15_AsciiFoldMatch ==
  \A c \in Slots :
    (SearchDone(c) /\ calls[c].args.limit = Undef) =>
      ReturnedIds(c) = {snap[c].reminders[p].id : p \in Matches(c, FoldAscii)}

\* C15: a reminder is returned by an uncapped search exactly when the query
\* is a substring of its name or of its body, letters compared without
\* regard to case, accented letters included; completed and incomplete
\* reminders match alike; with a list argument only that list is scanned,
\* without one every list.
C15_CaseInsensitiveMatch ==
  \A c \in Slots :
    (SearchDone(c) /\ calls[c].args.limit = Undef) =>
      /\ calls[c].response.kind = "result"
      /\ ReturnedIds(c) = {snap[c].reminders[p].id : p \in Matches(c, FoldAll)}
      /\ \A k \in 1..Len(Returned(c)) :
           calls[c].args.list # Undef => Returned(c)[k].list = calls[c].args.list.s

\* a search for "A" over all lists found a name in small letters, a name in
\* capitals in the other list, and a completed reminder by its body
C15_Witness ==
  \E c \in Slots :
    /\ SearchDone(c)
    /\ calls[c].args.query = Str(<<"A">>)
    /\ calls[c].args.list = Undef
    /\ calls[c].args.limit = Undef
    /\ Len(Returned(c)) = 3
    /\ \E k \in 1..3 : Returned(c)[k].name = <<"a">>
    /\ \E k \in 1..3 : Returned(c)[k].name = <<"x", "A">> /\ Returned(c)[k].list = WorkListName
    /\ \E k \in 1..3 : Returned(c)[k].body = <<"a", "b">> /\ Returned(c)[k].completed

FetchDone(c) == Done(c, {"reminders_get_reminders"}) /\ calls[c].last.fault = "none"

\* the one list a fetch reads
FetchList(c) ==
  IF calls[c].args.list = Undef THEN snap[c].lists[1] ELSE calls[c].args.list.s

\* the positions of that list that pass the completion filter
Fetched(c) ==
  {p \in 1..Len(snap[c].reminders) :
     /\ snap[c].reminders[p].list = FetchList(c)
     /\ calls[c].args.completed # Undef =>
          snap[c].reminders[p].completed = calls[c].args.completed.b}

\* C20: a list-scoped fetch reads one list (the named one, else the default
\* list), keeps the reminders that pass the completion filter when one is
\* given, and returns the first min(limit, count) of them in native order
\* (limit 100 when none is given): never a reminder of another list, never
\* more than limit records.
C20_ListFetch ==
  \A c \in Slots :
    FetchDone(c) =>
      /\ calls[c].response.kind = "result"
      /\ Len(Returned(c)) <= CapOf(c, 100)
      /\ FirstOf(snap[c], Fetched(c), CapOf(c, 100), Returned(c))
      /\ \A k \in 1..Len(Returned(c)) :
           /\ Returned(c)[k].list = FetchList(c)
           /\ calls[c].args.completed # Undef =>
                Returned(c)[k].completed = calls[c].args.completed.b

\* a fetch of the incomplete reminders of the named list, capped at 1 while
\* two qualify and the default list holds reminders too
C20_Witness ==
  \E c \in Slots :
    /\ FetchDone(c)
    /\ calls[c].args.list = Str(WorkListName)
    /\ calls[c].args.completed = Bool(FALSE)
    /\ calls[c].args.limit = Num(1)
    /\ Cardinality(Fetched(c)) = 2
    /\ \E p \in 1..Len(snap[c].reminders) : snap[c].reminders[p].list = DefaultListName
    /\ Len(Returned(c)) = 1

\* ---------------------------------------------------------------------------
\* SpecDue: the date-window queries and flagged over stores whose due dates
\* sit on the edges of the windows.  The host clock reads 1000000, so the
\* local day began at 950400.
\* ---------------------------------------------------------------------------

MaxDueItems == 2

\* due date, completed, flagged, list of the reminders the stores are built
\* from: the last second of yesterday, midnight, now - 1s, now, the last second
\* of today, midnight + 24h, now + 7 * 24h and one second later, or no due date
DueShapes ==
  {[due |-> DueAt(t), completed |-> FALSE, flagged |-> FALSE, list |-> DefaultListName] :
     t \in {950399, 950400, 999999, 1000000, 1036799, 1036800, 1604800, 1604801}}
  \cup
  {[due |-> NoDue, completed |-> FALSE, flagged |-> FALSE, list |-> DefaultListName],
   [due |-> NoDue, completed |-> FALSE, flagged |-> TRUE, list |-> WorkListName],
   [due |-> DueAt(999999), completed |-> TRUE, flagged |-> TRUE, list |-> WorkListName],
   [due |-> DueAt(1000000), completed |-> TRUE, flagged |-> FALSE, list |-> DefaultListName],
   [due |-> DueAt(950400), completed |-> FALSE, flagged |-> TRUE, list |-> WorkListName],
   [due |-> DueAt(1604800), completed |-> FALSE, flagged |-> FALSE, list |-> WorkListName]}

DueShaped(sh, n) ==
  [id |-> IdOf(n), name |-> <<"a">>, body |-> <<>>, completed |-> sh.completed,
   due |-> sh.due, priority |-> 0, flagged |-> sh.flagged, list |-> sh.list,
   created |-> 950400, modified |-> 950400]

DueStores ==
  {[n \in 1..Len(shs) |-> DueShaped(shs[n], n)] : shs \in SeqsUpTo(DueShapes, MaxDueItems)}

InitDue ==
  /\ lists = <<DefaultListName, WorkListName>>
  /\ reminders \in DueStores
  /\ nextId = Len(reminders) + 1
  /\ now = 1000000
  /\ calls = [c \in Slots |-> IdleCall]
  /\ snap = [c \in Slots |-> [lists |-> lists, reminders |-> reminders,
                              nextId |-> nextId, now |-> now]]

NextDue ==
  \E c \in Slots :
    \/ CallGetDueToday(c, NoArgs)
    \/ CallGetOverdue(c, NoArgs)
    \/ \E d \in {Undef, Num(0), Num(1)} : CallGetUpcoming(c, [NoArgs EXCEPT !.days = d])
    \/ CallGetFlagged(c, NoArgs)
    \/ CallGetReminders(c, NoArgs)
    \/ CallSearch(c, [NoArgs EXCEPT !.query = Str(<<"a">>)])
    \/ ExecRead(c)
    \/ Return(c)

SpecDue == InitDue /\ [][NextDue]_vars

QueryDone(c, tool) == Done(c, {tool}) /\ calls[c].last.fault = "none"

\* the incomplete reminders with a due date, by store position
DueOpen(c) ==
  {p \in 1..Len(snap[c].reminders) :
     ~snap[c].reminders[p].completed /\ snap[c].reminders[p].due.has}

DueOf(c, p) == snap[c].reminders[p].due.t

\* the query returned one record for each store position of Q, and no other
ReturnedExactly(c, Q) ==
  /\ calls[c].response.kind = "result"
  /\ Len(Returned(c)) = Cardinality(Q)
  /\ ReturnedIds(c) = {snap[c].reminders[p].id : p \in Q}

\* C16: due-today returns exactly the incomplete reminders, of all lists,
\* whose due instant d has startOfLocalDay <= d < startOfLocalDay + 24h:
\* midnight itself is in, midnight + 24h is out.
C16_DueTodayWindow ==
  \A c \in Slots :
    QueryDone(c, "reminders_get_due_today") =>
      LET startOfLocalDay == snap[c].now - (snap[c].now % 86400) IN
      ReturnedExactly(c, {p \in DueOpen(c) :
                            /\ startOfLocalDay <= DueOf(c, p)
                            /\ DueOf(c, p) < startOfLocalDay + 86400})

\* one reminder due at midnight and one due 24h later: only the first is
\* returned
C16_Witness ==
  \E c \in Slots :
    /\ QueryDone(c, "reminders_get_due_today")
    /\ \E p, q \in DueOpen(c) :
         /\ DueOf(c, p) = 950400
         /\ DueOf(c, q) = 950400 + 86400
         /\ ReturnedIds(c) = {snap[c].reminders[p].id}

\* the days getUpcoming is called with by the handler of the tool
DaysOf(c) == IF calls[c].args.days \in {Undef, Num(0)} THEN 7 ELSE calls[c].args.days.n

\* C17: upcoming(days) returns exactly the incomplete reminders, of all
\* lists, whose due instant d has now <= d <= now + days * 24h, both ends
\* included.
C17_UpcomingWindow ==
  \A c \in Slots :
    QueryDone(c, "reminders_get_upcoming") =>
      ReturnedExactly(c, {p \in DueOpen(c) :
                            /\ snap[c].now <= DueOf(c, p)
                            /\ DueOf(c, p) <= snap[c].now + DaysOf(c) * 86400})

\* days = 7: a reminder due 7 * 24h from now is returned, one due a second
\* later is not
C17_Witness ==
  \E c \in Slots :
    /\ QueryDone(c, "reminders_get_upcoming")
    /\ calls[c].args.days = Undef
    /\ \E p, q \in DueOpen(c) :
         /\ DueOf(c, p) = snap[c].now + 7 * 86400
         /\ DueOf(c, q) = snap[c].now + 7 * 86400 + 1
         /\ ReturnedIds(c) = {snap[c].reminders[p].id}

\* the store position of a returned record
PosOf(c, k) ==
  CHOOSE p \in 1..Len(snap[c].reminders) : snap[c].reminders[p].id = Returned(c)[k].id

\* C18: the records of upcoming are in ascending order of due instant; get
\* reminders, search, due today, overdue and flagged return theirs in the
\* native enumeration order.
C18_Ordering ==
  \A c \in Slots :
    /\ QueryDone(c, "reminders_get_upcoming") =>
         \A k, l \in 1..Len(Returned(c)) :
           k < l => DueOf(c, PosOf(c, k)) <= DueOf(c, PosOf(c, l))
    /\ (Done(c, QueryTools \ {"reminders_get_upcoming"})
          /\ calls[c].last.fault = "none") =>
         \A k, l \in 1..Len(Returned(c)) :
           k < l => EnumBefore(snap[c], PosOf(c, k), PosOf(c, l))

\* upcoming returned two reminders of one list in the reverse of their
\* native order
C18_Witness ==
  \E c \in Slots :
    /\ QueryDone(c, "reminders_get_upcoming")
    /\ Len(Returned(c)) = 2
    /\ snap[c].reminders[1].list = snap[c].reminders[2].list
    /\ Returned(c)[1].id = snap[c].reminders[2].id
    /\ Returned(c)[2].id = snap[c].reminders[1].id
    /\ DueOf(c, 2) < DueOf(c, 1)

\* C19: due today, overdue, upcoming and flagged return incomplete
\* reminders only; overdue returns exactly the incomplete reminders due
\* strictly before now; flagged returns exactly the reminders that are
\* incomplete and flagged, whatever their due date, without a cap.
C19_IncompleteOnly ==
  \A c \in Slots :
    /\ (Done(c, {"reminders_get_due_today", "reminders_get_overdue",
                 "reminders_get_upcoming", "reminders_get_flagged"})
          /\ calls[c].last.fault = "none") =>
         \A k \in 1..Len(Returned(c)) :
           /\ ~Returned(c)[k].completed
           /\ ~snap[c].reminders[PosOf(c, k)].completed
    /\ QueryDone(c, "reminders_get_overdue") =>
         ReturnedExactly(c, {p \in DueOpen(c) : DueOf(c, p) < snap[c].now})
    /\ QueryDone(c, "reminders_get_flagged") =>
         ReturnedExactly(c, {p \in 1..Len(snap[c].reminders) :
                               /\ snap[c].reminders[p].flagged
                               /\ ~snap[c].reminders[p].completed})

\* overdue with one reminder due a second ago and one due now: only the
\* first is returned
C19_Witness ==
  \E c \in Slots :
    /\ QueryDone(c, "reminders_get_overdue")
    /\ \E p, q \in DueOpen(c) :
         /\ DueOf(c, p) = snap[c].now - 1
         /\ DueOf(c, q) = snap[c].now
         /\ ReturnedIds(c) = {snap[c].reminders[p].id}

\* ---------------------------------------------------------------------------
\* Reads are fresh queries (Spec)
\* ---------------------------------------------------------------------------

\* the subprocess of a read ends in this step
ReadEnds(c) ==
  calls[c].pc = "exec" /\ calls[c].tool \in ReadTools /\ calls'[c].pc = "done"

ListCount(name) == Cardinality({p \in 1..Len(reminders) : reminders[p].list = name})

\* get lists answers with the lists the store holds in this step, each with
\* the number of reminders it holds
ListsReflect(c) ==
  (calls[c].tool = "reminders_get_lists" /\ calls'[c].last.fault = "none") =>
    LET recs == calls'[c].response.value.records IN
    /\ calls'[c].response.kind = "result"
    /\ Len(recs) = Len(lists)
    /\ \A k \in 1..Len(recs) :
         recs[k].name = lists[k] /\ recs[k].count = ListCount(lists[k])

\* get reminders answers with the reminders the default list holds in this
\* step, as they are in the store
RemindersReflect(c) ==
  (calls[c].tool = "reminders_get_reminders" /\ calls'[c].last.fault = "none") =>
    LET inList == SelectSeqBy(reminders, {p \in 1..Len(reminders) :
                                            reminders[p].list = lists[1]})
        cap == IF calls[c].args.limit = Undef THEN 100 ELSE calls[c].args.limit.n
        recs == calls'[c].response.value.records
    IN /\ calls'[c].response.kind = "result"
       /\ Len(recs) = IF Len(inList) > cap THEN cap ELSE Len(inList)
       /\ \A k \in 1..Len(recs) :
            /\ recs[k].id = inList[k].id
            /\ recs[k].name = inList[k].name
            /\ recs[k].completed = inList[k].completed
            /\ recs[k].flagged = Bool(inList[k].flagged)

\* C21: the bridge holds no state between calls.  The step that ends a
\* read's subprocess leaves the store as it is (a read issues no mutating
\* command), and what get lists and get reminders answer is what the store
\* holds at that step, whatever calls came before: every completed create,
\* complete, uncomplete, delete, update and list mutation shows in it.
C21_ReadsAreFresh ==
  [][\A c \in Slots :
       ReadEnds(c) =>
         /\ lists' = lists /\ reminders' = reminders /\ nextId' = nextId
         /\ ListsReflect(c)
         /\ RemindersReflect(c)]_vars

\* a fetch issued after a create, an update that flagged the reminder and a
\* complete had ended: its record shows both mutations, and the store is as
\* it was when the fetch was called
C21_Witness ==
  \E c \in Slots :
    /\ Done(c, {"reminders_get_reminders"})
    /\ calls[c].last.fault = "none"
    /\ Store = snap[c]
    /\ \E k \in 1..Len(Returned(c)) :
         /\ Returned(c)[k].completed
         /\ Returned(c)[k].flagged = Bool(TRUE)
         /\ \E p \in 1..Len(reminders) :
              /\ reminders[p].id = Returned(c)[k].id
              /\ reminders[p].completed
              /\ reminders[p].flagged

\* ---------------------------------------------------------------------------
\* The literals of the command text (SpecText)
\* ---------------------------------------------------------------------------

\* the host reads "<content>" up to the closing quote the renderer wrote
ClosesWhereWritten(content) == HostLiteral(content).why \notin {"early", "swallowed"}

\* C22: whatever text a create is given as name or body (double quotes,
\* backslashes and line terminators included), the literal it is rendered
\* into ends at the closing quote the renderer wrote: it does not end early
\* and its closing quote is not swallowed.
C22_LiteralsClosed ==
  \A c \in Slots :
    (calls[c].pc = "exec" /\ calls[c].script.op = "create") =>
      /\ ClosesWhereWritten(calls[c].script.name)
      /\ ClosesWhereWritten(calls[c].script.body)

\* ---------------------------------------------------------------------------
\* Replies that are no JSON (SpecText)
\* ---------------------------------------------------------------------------

\* the subprocess of the read went well and printed a text JSON.parse rejects
Undecodable(c) ==
  /\ Done(c, ReadTools)
  /\ calls[c].last.fault = "none"
  /\ calls[c].last.ok
  /\ ~JsonParse(calls[c].last.raw.out).ok

\* C23: a list-returning operation whose subprocess printed a text that is
\* not decodable returns the empty sequence; the decoding failure does not
\* surface as an error.
C23_UndecodableGivesEmpty ==
  \A c \in Slots :
    Undecodable(c) =>
      /\ calls[c].response.kind = "result"
      /\ calls[c].response.value.records = <<>>

\* ---------------------------------------------------------------------------
\* The subprocesses of a batch (SpecBulk)
\* ---------------------------------------------------------------------------

\* the items of the batch whose subprocess has ended: each one raised the
\* counter or pushed an error
BulkFinished(c) == calls[c].count + Len(calls[c].errors)

\* the subprocesses of the batch that are running
BulkRunning(c) == calls[c].spawned - BulkFinished(c)

\* C24: the per-item operations of one bulk call are strictly sequential.
\* While the call is in flight exactly one subprocess of the batch runs, the
\* one of item k, and the k - 1 items before it have all ended (succeeded or
\* failed); when the call has returned none runs.
C24_BulkSequential ==
  \A c \in Slots :
    calls[c].tool \in BulkTools =>
      /\ BulkRunning(c) \in {0, 1}
      /\ calls[c].pc = "exec" =>
           /\ BulkRunning(c) = 1
           /\ calls[c].spawned = calls[c].k
           /\ BulkFinished(c) = calls[c].k - 1
      /\ calls[c].pc = "done" => BulkRunning(c) = 0

\* the subprocess of the third item runs after the first item's failed and
\* the second item's succeeded
C24_Witness ==
  \E c \in Slots :
    /\ calls[c].tool \in BulkTools
    /\ calls[c].pc = "exec"
    /\ calls[c].k = 3
    /\ calls[c].count = 1
    /\ Len(calls[c].errors) = 1
    /\ calls[c].errors[1].item = 1

\* ---------------------------------------------------------------------------
\* Subprocesses per call (SpecAttempts)
\* ---------------------------------------------------------------------------

AttemptBulkArgs ==
  {[NoArgs EXCEPT !.reminder_ids = Arr(d)] :
     d \in {<<>>, <<Str(IdOf(1))>>, <<Str(IdOf(2)), Str(IdOf(1))>>,
            <<Str(IdOf(1)), Num(7), Str(IdOf(2))>>}}

\* SpecAttempts: the calls of Spec and, with them, bulk completes and deletes
\* over arrays of ids
NextAttempts ==
  \/ Next
  \/ \E c \in Slots :
       \/ \E a \in AttemptBulkArgs : CallBulkComplete(c, a)
       \/ \E a \in AttemptBulkArgs : CallBulkDelete(c, a)
       \/ ExecBulk(c)

SpecAttempts == Init /\ [][NextAttempts]_vars

SingleTools == MutationTools \cup ReadTools \cup {"reminders_check_permissions"}

\* the call answered with the failure of its operation
FailureSurfaced(c) ==
  CASE calls[c].tool \in MutationTools ->
         calls[c].response.kind = "result" /\ ~calls[c].response.value.success
    [] calls[c].tool \in ReadTools ->
         calls[c].response.kind = "error" /\ calls[c].response.isError
    [] OTHER -> calls[c].response.kind = "result" /\ ~calls[c].response.value.reminders

\* the call ended before its operation had a command text to run: the
\* handler asked for a field, the render threw, or the update had no field
RejectedBeforeSpawn(c) ==
  \/ calls[c].response.kind = "error"
  \/ calls[c].response.value = Failure(NoUpdatesProvided)

\* C25 as stated: every single-item operation and every query that the
\* handler let through starts exactly one subprocess, whether it succeeds or
\* fails.
C25_ExactlyOneSubprocess ==
  \A c \in Slots :
    (Done(c, SingleTools) /\ ~LacksRequired(c)) => calls[c].spawned = 1

\* C25, amended: no operation retries.  A single-item operation or query
\* starts at most one subprocess: exactly one while it is in flight, and none
\* only when it ended before it had a command text to run.  When its one
\* subprocess failed, the call answers with that failure and no second
\* subprocess was started.  A bulk operation over N items starts at most N
\* subprocesses.
C25_NoRetry ==
  \A c \in Slots :
    /\ calls[c].tool \in SingleTools =>
         /\ calls[c].spawned <= 1
         /\ calls[c].pc = "exec" => calls[c].spawned = 1
         /\ (calls[c].pc = "done" /\ calls[c].spawned = 0) => RejectedBeforeSpawn(c)
         /\ (calls[c].pc = "done" /\ calls[c].spawned = 1 /\ ~calls[c].last.ok) =>
              FailureSurfaced(c)
    /\ (calls[c].tool \in BulkTools /\ calls[c].args.reminder_ids # Undef) =>
         calls[c].spawned <= BulkN(c)

\* a complete whose one subprocess timed out answered with the failure
C25_Witness ==
  \E c \in Slots :
    /\ Done(c, {"reminders_complete"})
    /\ calls[c].spawned = 1
    /\ calls[c].last.fault = "timeout"
    /\ calls[c].response.value = Failure(TimedOut)

\* ---------------------------------------------------------------------------
\* Two calls in flight (SpecTwo)
\* ---------------------------------------------------------------------------

\* the CallToolRequestSchema handler is async: a second request is taken up
\* while the first awaits its subprocess
BothSlots == {1, 2}

\* the store as the user left it: one reminder in the default list
InitTwo ==
  /\ lists = <<DefaultListName>>
  /\ reminders = <<[id |-> IdOf(1), name |-> <<"a">>, body |-> <<>>, completed |-> FALSE,
                    due |-> NoDue, priority |-> 0, flagged |-> FALSE,
                    list |-> DefaultListName, created |-> 950400, modified |-> 950400]>>
  /\ nextId = Len(reminders) + 1
  /\ now = 1000000
  /\ calls = [c \in BothSlots |-> IdleCall]
  /\ snap = [c \in BothSlots |-> [lists |-> lists, reminders |-> reminders,
                                  nextId |-> nextId, now |-> now]]

TwoIdArgs ==
  {[NoArgs EXCEPT !.reminder_ids = Arr(d)] :
     d \in {<<Str(IdOf(1))>>, <<Str(IdOf(2)), Str(IdOf(1))>>,
            <<Str(IdOf(1)), Str(IdOf(1))>>}}

TwoCreateArgs ==
  {[NoArgs EXCEPT !.reminders = Arr(d)] :
     d \in {<<Descriptor(Str(<<"a">>))>>,
            <<Descriptor(Str(<<"a">>)), Descriptor(Str(<<"a">>))>>}}

\* SpecTwo: two bulk calls, one per slot, whose subprocess steps interleave
\* in every order
NextTwo ==
  \E c \in BothSlots :
    \/ \E a \in TwoCreateArgs : CallBulkCreate(c, a)
    \/ \E a \in TwoIdArgs : CallBulkComplete(c, a)
    \/ \E a \in TwoIdArgs : CallBulkDelete(c, a)
    \/ ExecBulk(c)

SpecTwo == InitTwo /\ [][NextTwo]_vars

\* the result of a bulk call counts the items of that call: every item is in
\* the counter or in the error list, and an error entry names the item of
\* this call at its position
CountsOwnItems(call) ==
  (call.pc = "done" /\ call.tool \in BulkTools /\ call.response.kind = "result") =>
    LET n == Len(BulkItems(call.tool, call.args))
        res == call.response.value
    IN /\ res.count + Len(res.errors) = n
       /\ res.success = (Len(res.errors) = 0)
       /\ call.spawned <= n
       /\ \A e \in 1..Len(res.errors) :
            /\ res.errors[e].item \in 1..n
            /\ res.errors[e].ident = BulkIdent(call.tool, call.args, res.errors[e].item)
            /\ \A f \in 1..Len(res.errors) : e < f => res.errors[e].item < res.errors[f].item

\* C26: when two tool calls run interleaved, each call uses only its own
\* subprocesses and its own result object.  No step touches the record of
\* more than one call, and the counter and error list a bulk call returns
\* count exactly its own items, under every interleaving of the two calls'
\* subprocess steps.
C26_CallsIndependent ==
  [][/\ \A c, d \in BothSlots : (c # d /\ calls'[c] # calls[c]) => calls'[d] = calls[d]
     /\ \A c \in BothSlots : CountsOwnItems(calls'[c])]_vars

\* a bulk complete of the same id twice whose second item found the reminder
\* gone: the other call's delete ran between its two subprocesses, and that
\* other call is still in flight
C26_Witness ==
  \E c, d \in BothSlots :
    /\ c # d
    /\ calls[c].pc = "done"
    /\ calls[c].tool = "reminders_bulk_complete"
    /\ calls[c].args.reminder_ids = Arr(<<Str(IdOf(1)), Str(IdOf(1))>>)
    /\ calls[c].response.value.count = 1
    /\ Len(calls[c].response.value.errors) = 1
    /\ calls[c].response.value.errors[1].error = CantGetReminder
    /\ calls[d].tool = "reminders_bulk_delete"
    /\ calls[d].pc = "exec"
    /\ calls[d].k = 2

\* the incomplete reminders due within 7 * 24h from the call's now
SevenDayWindow(c) ==
  {p \in DueOpen(c) :
     snap[c].now <= DueOf(c, p) /\ DueOf(c, p) <= snap[c].now + 7 * 86400}

\* C27: through the tool interface, reminders_get_upcoming with days = 0,
\* like the call with no days, uses the 7-day window: it returns exactly the
\* incomplete reminders due within 7 * 24h from now, not only those due at
\* now.
C27_ZeroDaysIsSeven ==
  \A c \in Slots :
    (QueryDone(c, "reminders_get_upcoming") /\ calls[c].args.days \in {Undef, Num(0)}) =>
      ReturnedExactly(c, SevenDayWindow(c))

\* days = 0 with one reminder due now and one due 7 * 24h from now: both
\* are returned
C27_Witness ==
  \E c \in Slots :
    /\ QueryDone(c, "reminders_get_upcoming")
    /\ calls[c].args.days = Num(0)
    /\ \E p, q \in DueOpen(c) :
         /\ DueOf(c, p) = snap[c].now
         /\ DueOf(c, q) = snap[c].now + 7 * 86400
         /\ ReturnedIds(c) = {snap[c].reminders[p].id, snap[c].reminders[q].id}

====
